---------------------------- MODULE Spec2Model ----------------------------
(***************************************************************************)
(* Tuo La Ji (Sheng Ji / Tractor) rules engine of src/tuolaji.py:          *)
(* Card / deck, TrumpSystem, CardCombo, Trick and the GameState round      *)
(* state machine.                                                          *)
(***************************************************************************)
EXTENDS Integers, Sequences, FiniteSets, TLC

(***************************************************************************)
(* Generic sequence helpers (Python list idioms).                          *)
(***************************************************************************)
Range(s) == {s[i] : i \in 1..Len(s)}

Take(s, n) == SubSeq(s, 1, IF n < Len(s) THEN n ELSE Len(s))

Min2(a, b) == IF a < b THEN a ELSE b

RECURSIVE Concat(_)
Concat(ss) == IF ss = <<>> THEN <<>> ELSE Head(ss) \o Concat(Tail(ss))

RECURSIVE SumSeq(_)
SumSeq(s) == IF s = <<>> THEN 0 ELSE Head(s) + SumSeq(Tail(s))

\* list.remove(x): drops the first element equal to x
RECURSIVE Remove(_, _)
\* list.remove that removes nothing
Remove_KeepsCard(s, x) == s

Remove(s, x) ==
  IF s = <<>> THEN <<>>
  ELSE IF Head(s) = x THEN Tail(s) ELSE <<Head(s)>> \o Remove(Tail(s), x)

\* for x in xs: s.remove(x)   (every x is known to be in s)
RECURSIVE RemoveAll(_, _)
RemoveAll(s, xs) ==
  IF xs = <<>> THEN s ELSE RemoveAll(Remove(s, Head(xs)), Tail(xs))

\* sorted(list of ints), ascending
RECURSIVE InsertAsc(_, _)
InsertAsc(s, x) ==
  IF s = <<>> THEN <<x>>
  ELSE IF x < Head(s) THEN <<x>> \o s ELSE <<Head(s)>> \o InsertAsc(Tail(s), x)

RECURSIVE SortAsc(_)
SortAsc(s) == IF s = <<>> THEN <<>> ELSE InsertAsc(SortAsc(Tail(s)), Head(s))

\* the distinct elements of s in order of first appearance (dict insertion order)
RECURSIVE Distinct(_)
Distinct(s) ==
  IF s = <<>> THEN <<>>
  ELSE LET d == Distinct(SubSeq(s, 1, Len(s) - 1))
       IN  IF s[Len(s)] \in Range(d) THEN d ELSE Append(d, s[Len(s)])

(***************************************************************************)
(* 1. Card model.                                                          *)
(***************************************************************************)
SUITS == <<"C", "D", "H", "S">>

RANKS == <<"2", "3", "4", "5", "6", "7", "8", "9", "10", "J", "Q", "K", "A">>

RANK_VAL == [r \in Range(RANKS) |-> (CHOOSE i \in 0..12 : RANKS[i + 1] = r)]

SUIT_IDX == [s \in Range(SUITS) |-> (CHOOSE i \in 0..3 : SUITS[i + 1] = s)]

SMALL_JOKER == "SJ"

BIG_JOKER == "BJ"

Card(suit, rank, deck_id) == [suit |-> suit, rank |-> rank, deck_id |-> deck_id]

is_joker(c) == c.suit \in {SMALL_JOKER, BIG_JOKER}

is_big_joker(c) == c.suit = BIG_JOKER

is_small_joker(c) == c.suit = SMALL_JOKER

point_value(c) ==
  IF c.rank = "5" THEN 5
  ELSE IF c.rank = "10" THEN 10
  ELSE IF c.rank = "K" THEN 10
  ELSE 0

\* the 54 cards of one deck, in construction order
make_deck(deck_id) ==
  [i \in 1..54 |->
     IF i = 53 THEN Card(SMALL_JOKER, SMALL_JOKER, deck_id)
     ELSE IF i = 54 THEN Card(BIG_JOKER, BIG_JOKER, deck_id)
     ELSE Card(SUITS[((i - 1) \div 13) + 1], RANKS[((i - 1) % 13) + 1], deck_id)]

\* make_double_deck before the shuffle: deck 0 then deck 1
UnshuffledDeck == make_deck(0) \o make_deck(1)

(***************************************************************************)
(* 2. TrumpSystem.                                                         *)
(***************************************************************************)
TrumpSystem(trump_suit, trump_rank) ==
  [trump_suit |-> trump_suit, trump_rank |-> trump_rank]

is_trump(t, c) ==
  \/ is_joker(c)
  \/ c.rank = t.trump_rank
  \/ c.suit = t.trump_suit

effective_suit(t, c) == IF is_trump(t, c) THEN "TRUMP" ELSE c.suit

\* index of suit in [s for s in SUITS if s != trump_suit]
NonTrumpIndex(t, suit) ==
  Cardinality({i \in 1..Len(SUITS) :
                 /\ SUITS[i] # t.trump_suit
                 /\ i < SUIT_IDX[suit] + 1})

trump_order(t, c) ==
  IF is_big_joker(c) THEN 1000
  ELSE IF is_small_joker(c) THEN 999
  ELSE IF c.suit = t.trump_suit /\ c.rank = t.trump_rank THEN 998
  ELSE IF c.rank = t.trump_rank THEN 500 + NonTrumpIndex(t, c.suit)
  ELSE RANK_VAL[c.rank]

card_order(t, c) ==
  IF is_trump(t, c) THEN 2000 + trump_order(t, c)
  ELSE SUIT_IDX[c.suit] * 100 + RANK_VAL[c.rank]

\* beats with a tie going to the challenger
beats_OnTie(t, challenger, incumbent, led_suit) ==
  LET c_trump == is_trump(t, challenger)
      i_trump == is_trump(t, incumbent)
      c_suit  == effective_suit(t, challenger)
      i_suit  == effective_suit(t, incumbent)
  IN  IF c_suit = i_suit
      THEN IF c_trump /\ i_trump
           THEN trump_order(t, challenger) >= trump_order(t, incumbent)
           ELSE RANK_VAL[challenger.rank] >= RANK_VAL[incumbent.rank]
      ELSE IF c_trump /\ ~i_trump THEN TRUE
      ELSE IF c_suit = led_suit /\ i_suit \notin {led_suit, "TRUMP"} THEN TRUE
      ELSE FALSE

\* beats with the led suit winning over any other effective suit
beats_LedOverTrump(t, challenger, incumbent, led_suit) ==
  LET c_trump == is_trump(t, challenger)
      i_trump == is_trump(t, incumbent)
      c_suit  == effective_suit(t, challenger)
      i_suit  == effective_suit(t, incumbent)
  IN  IF c_suit = i_suit
      THEN IF c_trump /\ i_trump
           THEN trump_order(t, challenger) > trump_order(t, incumbent)
           ELSE RANK_VAL[challenger.rank] > RANK_VAL[incumbent.rank]
      ELSE IF c_trump /\ ~i_trump THEN TRUE
      ELSE IF c_suit = led_suit THEN TRUE
      ELSE FALSE

beats(t, challenger, incumbent, led_suit) ==
  LET c_trump == is_trump(t, challenger)
      i_trump == is_trump(t, incumbent)
      c_suit  == effective_suit(t, challenger)
      i_suit  == effective_suit(t, incumbent)
  IN  IF c_suit = i_suit
      THEN IF c_trump /\ i_trump
           THEN trump_order(t, challenger) > trump_order(t, incumbent)
           ELSE RANK_VAL[challenger.rank] > RANK_VAL[incumbent.rank]
      ELSE IF c_trump /\ ~i_trump THEN TRUE
      ELSE IF c_suit = led_suit /\ i_suit \notin {led_suit, "TRUMP"} THEN TRUE
      ELSE FALSE

\* sorted(hand, key=card_order, reverse=True): stable, strongest first
RECURSIVE InsertDesc(_, _, _)
InsertDesc(t, s, x) ==
  IF s = <<>> THEN <<x>>
  ELSE IF card_order(t, x) > card_order(t, Head(s)) THEN <<x>> \o s
  ELSE <<Head(s)>> \o InsertDesc(t, Tail(s), x)

RECURSIVE sort_hand(_, _)
sort_hand(t, hand) ==
  IF hand = <<>> THEN <<>>
  ELSE InsertDesc(t, sort_hand(t, SubSeq(hand, 1, Len(hand) - 1)), hand[Len(hand)])

(***************************************************************************)
(* 3. CardCombo.                                                           *)
(***************************************************************************)
SINGLE == "single"

PAIR == "pair"

TRACTOR == "tractor"

MULTI == "multi"

\* order_of: the nested helper of _decompose / required_follow_structure /
\* is_valid_follow / build_valid_follow, and the key of _group_by_order
order_of(t, c) == IF is_trump(t, c) THEN trump_order(t, c) ELSE RANK_VAL[c.rank]

\* maximal runs of consecutive values in an ascending list (the i/j while-loops)
RECURSIVE Runs(_)
Runs(os) ==
  IF os = <<>> THEN <<>>
  ELSE LET rest == Runs(Tail(os))
       IN  IF rest # <<>> /\ Head(rest)[1] - Head(os) = 1
           THEN <<(<<Head(os)>> \o Head(rest))>> \o Tail(rest)
           ELSE <<(<<Head(os)>>)>> \o rest

\* the runs of at least two consecutive pairs
TractorRuns(os) == SelectSeq(Runs(os), LAMBDA r : Len(r) >= 2)

\* dict order -> list of cards, as its keys in insertion order and a lookup
OrderKeys(t, cards) == Distinct([i \in 1..Len(cards) |-> order_of(t, cards[i])])

OrderGroup(t, cards, o) == SelectSeq(cards, LAMBDA c : order_of(t, c) = o)

\* sorted orders of the groups holding at least two cards
PairOrders(t, cards) ==
  SortAsc(SelectSeq(OrderKeys(t, cards),
                    LAMBDA o : Len(OrderGroup(t, cards, o)) >= 2))

\* _try_tractor taking pairs two orders apart as consecutive too
_try_tractor_AllowsGap(t, cards) ==
  IF Len(cards) < 4 \/ Len(cards) % 2 # 0 THEN FALSE
  ELSE LET keys   == OrderKeys(t, cards)
           orders == SortAsc(keys)
       IN  /\ \A i \in 1..Len(keys) : Len(OrderGroup(t, cards, keys[i])) = 2
           /\ \A i \in 1..(Len(orders) - 1) : orders[i + 1] - orders[i] <= 2

_try_tractor(t, cards) ==
  IF Len(cards) < 4 \/ Len(cards) % 2 # 0 THEN FALSE
  ELSE LET keys   == OrderKeys(t, cards)
           orders == SortAsc(keys)
       IN  /\ \A i \in 1..Len(keys) : Len(OrderGroup(t, cards, keys[i])) = 2
           /\ \A i \in 1..(Len(orders) - 1) : orders[i + 1] - orders[i] = 1

\* groups of _decompose: key (effective_suit, order)
SuitOrderKey(t, c) == <<effective_suit(t, c), order_of(t, c)>>

SuitOrderKeys(t, cards) ==
  Distinct([i \in 1..Len(cards) |-> SuitOrderKey(t, cards[i])])

SuitOrderGroup(t, cards, k) == SelectSeq(cards, LAMBDA c : SuitOrderKey(t, c) = k)

\* tractor components of one suit: each run of >= 2 consecutive pairs
SuitTractors(t, cards, suit, pairKeys) ==
  LET mine   == SelectSeq(pairKeys, LAMBDA k : k[1] = suit)
      orders == SortAsc([i \in 1..Len(mine) |-> mine[i][2]])
      runs   == TractorRuns(orders)
  IN  [r \in 1..Len(runs) |->
         Concat([k \in 1..Len(runs[r]) |->
                   Take(SuitOrderGroup(t, cards, <<suit, runs[r][k]>>), 2)])]

\* a `used` set that never records a card
UsedCards_Forgets(components) == {}

\* the set `used`: the cards of the components built so far
UsedCards(components) == UNION {Range(components[i]) : i \in 1..Len(components)}

\* the first two cards of group k, without the cards already used
FreePair(t, cards, k, used) ==
  SelectSeq(Take(SuitOrderGroup(t, cards, k), 2), LAMBDA c : c \notin used)

\* "Find tractors": the tractor components, suit by suit
AllTractors(t, cards, pairKeys) ==
  LET pairSuits == Distinct([i \in 1..Len(pairKeys) |-> pairKeys[i][1]])
  IN  Concat([i \in 1..Len(pairSuits) |->
                SuitTractors(t, cards, pairSuits[i], pairKeys)])

\* "Remaining pairs": the pairs with neither card in a tractor
RemainingPairs(t, cards, pairKeys, used) ==
  LET ks == SelectSeq(pairKeys, LAMBDA k : Len(FreePair(t, cards, k, used)) = 2)
  IN  [i \in 1..Len(ks) |-> FreePair(t, cards, ks[i], used)]

\* "Singles": every card not used yet, group by group
RemainingSingles(t, cards, keys, used) ==
  LET cs == SelectSeq(Concat([i \in 1..Len(keys) |->
                                SuitOrderGroup(t, cards, keys[i])]),
                      LAMBDA c : c \notin used)
  IN  [i \in 1..Len(cs) |-> <<cs[i]>>]

AddSingles(t, cards, keys, paired) ==
  paired \o RemainingSingles(t, cards, keys, UsedCards(paired))

AddPairs(t, cards, keys, pairKeys, tractors) ==
  AddSingles(t, cards, keys,
             tractors \o RemainingPairs(t, cards, pairKeys, UsedCards(tractors)))

AddTractors(t, cards, keys, pairKeys) ==
  AddPairs(t, cards, keys, pairKeys, AllTractors(t, cards, pairKeys))

\* the components of the groups `keys`: tractors, then pairs, then singles
Components(t, cards, keys) ==
  AddTractors(t, cards, keys,
              SelectSeq(keys, LAMBDA k : Len(SuitOrderGroup(t, cards, k)) >= 2))

\* components if components else [cards]
OrWhole(components, cards) == IF components # <<>> THEN components ELSE <<cards>>

_decompose(t, cards) ==
  OrWhole(Components(t, cards, SuitOrderKeys(t, cards)), cards)

Combo(cards, type, components) ==
  [cards |-> cards, type |-> type, components |-> components]

\* the type _detect gives to decomposed components
Decomposed(cards, components) ==
  IF Len(components) = 1 /\ Len(components[1]) = Len(cards)
  THEN IF Len(cards) = 2 THEN Combo(cards, PAIR, components)
       ELSE Combo(cards, TRACTOR, components)
  ELSE Combo(cards, MULTI, components)

\* the combo whose type and components the constructor computes
_detect(t, cards) ==
  LET n       == Len(cards)
      suits   == {effective_suit(t, cards[i]) : i \in 1..n}
      is_pair == /\ n = 2
                 /\ \/ cards[1].rank = cards[2].rank
                    \/ /\ is_trump(t, cards[1])
                       /\ is_trump(t, cards[2])
                       /\ trump_order(t, cards[1]) = trump_order(t, cards[2])
  IN  IF n = 1 THEN Combo(cards, SINGLE, <<cards>>)
      ELSE IF Cardinality(suits) = 1 /\ is_pair THEN Combo(cards, PAIR, <<cards>>)
      ELSE IF Cardinality(suits) = 1 /\ _try_tractor(t, cards)
      THEN Combo(cards, TRACTOR, <<cards>>)
      ELSE Decomposed(cards, _decompose(t, cards))

CardCombo(cards, t) == _detect(t, cards)

\* CardCombo.top_card: max(cards, key=card_order), the first maximal card
top_card(t, combo) ==
  LET cs == combo.cards
      i  == CHOOSE i \in 1..Len(cs) :
              /\ \A j \in 1..Len(cs) : card_order(t, cs[j]) <= card_order(t, cs[i])
              /\ \A j \in 1..(i - 1) : card_order(t, cs[j]) < card_order(t, cs[i])
  IN  cs[i]

\* CardCombo.effective_suit: the effective suit of the first card
combo_suit(t, combo) == effective_suit(t, combo.cards[1])

is_valid_lead(cards, t) ==
  /\ cards # <<>>
  /\ Cardinality({effective_suit(t, cards[i]) : i \in 1..Len(cards)}) <= 1

\* sorted(s, key=...): stable, ascending; key maps each element to its key
RECURSIVE InsertByKey(_, _, _)
InsertByKey(key, s, x) ==
  IF s = <<>> THEN <<x>>
  ELSE IF key[x] < key[Head(s)] THEN <<x>> \o s
  ELSE <<Head(s)>> \o InsertByKey(key, Tail(s), x)

RECURSIVE SortByKey(_, _)
SortByKey(key, s) ==
  IF s = <<>> THEN <<>>
  ELSE InsertByKey(key, SortByKey(key, SubSeq(s, 1, Len(s) - 1)), s[Len(s)])

\* sorted(led.components, key=lambda c: -len(c))
LargestFirst(components) ==
  SortByKey([c \in Range(components) |-> 0 - Len(c)], components)

HandInSuit(t, hand, led_suit) ==
  SelectSeq(hand, LAMBDA c : effective_suit(t, c) = led_suit)

\* number of pairs standing in runs of >= 2 consecutive pair orders
TractorPairCount(pair_orders) ==
  LET runs == TractorRuns(pair_orders)
  IN  SumSeq([i \in 1..Len(runs) |-> Len(runs[i])])

\* a total that leaves the single cards out
FollowTotal_NoSingles(committed, supplied_singles, n_in_suit, n_lead) ==
  Min2(Min2(committed, n_in_suit), n_lead)

\* the cap of the committed cards by the cards held and the cards led
FollowTotal(committed, supplied_singles, n_in_suit, n_lead) ==
  Min2(Min2(committed + supplied_singles, n_in_suit), n_lead)

\* the counts of required_follow_structure from the sizes of the led
\* components and the follower's led-suit pairs
RequiredCounts(sizes, n_lead, hand_in_suit, pair_orders, tractor_pair_count) ==
  LET n_in_suit == Len(hand_in_suit)
      free_pair_count == Len(pair_orders) - tractor_pair_count
      demand_tractor_pairs ==
        SumSeq([i \in 1..Len(sizes) |-> IF sizes[i] >= 4 THEN sizes[i] \div 2 ELSE 0])
      demand_pairs0 ==
        SumSeq([i \in 1..Len(sizes) |-> IF sizes[i] = 2 THEN 1 ELSE 0])
      demand_singles0 ==
        SumSeq([i \in 1..Len(sizes) |->
                  IF sizes[i] >= 4 \/ sizes[i] = 2 THEN 0 ELSE 1])
      supplied_tractor_pairs   == Min2(tractor_pair_count, demand_tractor_pairs)
      remaining_tractor_demand == demand_tractor_pairs - supplied_tractor_pairs
      demand_pairs             == demand_pairs0 + remaining_tractor_demand
      supplied_pairs           == Min2(free_pair_count, demand_pairs)
      remaining_pair_demand    == demand_pairs - supplied_pairs
      demand_singles           == demand_singles0 + remaining_pair_demand * 2
      committed                == supplied_tractor_pairs * 2 + supplied_pairs * 2
      remaining_suit_cards     == n_in_suit - committed
      supplied_singles         == Min2(remaining_suit_cards, demand_singles)
      total == FollowTotal(committed, supplied_singles, n_in_suit, n_lead)
  IN  IF n_in_suit = 0
      THEN [tractors |-> 0, pair_cards |-> 0, singles |-> 0, total |-> 0]
      ELSE [tractors   |-> supplied_tractor_pairs * 2,
            pair_cards |-> supplied_pairs * 2,
            singles    |-> supplied_singles,
            total      |-> total,
            _avail_tractor_pairs |-> tractor_pair_count,
            _avail_free_pairs    |-> free_pair_count,
            _hand_in_suit        |-> hand_in_suit]

RequiredOfHand(sizes, n_lead, hand_in_suit, pair_orders) ==
  RequiredCounts(sizes, n_lead, hand_in_suit, pair_orders,
                 TractorPairCount(pair_orders))

RequiredOfSizes(t, sizes, n_lead, hand_in_suit) ==
  RequiredOfHand(sizes, n_lead, hand_in_suit, PairOrders(t, hand_in_suit))

SizesOf(components) == [i \in 1..Len(components) |-> Len(components[i])]

required_follow_structure(led, hand, t) ==
  RequiredOfSizes(t, SizesOf(LargestFirst(led.components)), Len(led.cards),
                  HandInSuit(t, hand, combo_suit(t, led)))

\* the checks of is_valid_follow once the requirement and the played pairs
\* are counted
MeetsRequirement(n_cards, n_needed, n_in_suit, req, pair_orders, tractor_pairs) ==
  LET played_tractor_pairs == tractor_pairs
      played_free_pairs    == Len(pair_orders) - tractor_pairs
  IN  IF n_cards # n_needed THEN FALSE
      ELSE IF n_in_suit < req.total THEN FALSE
      ELSE IF n_in_suit >= req.total /\ req.total > 0
           THEN IF played_tractor_pairs < req.tractors \div 2 THEN FALSE
                ELSE IF played_free_pairs < req.pair_cards \div 2 THEN FALSE
                ELSE TRUE
           ELSE TRUE

MeetsWithOrders(n_cards, n_needed, n_in_suit, req, played_pair_orders) ==
  MeetsRequirement(n_cards, n_needed, n_in_suit, req, played_pair_orders,
                   TractorPairCount(played_pair_orders))

MeetsInSuit(t, n_cards, n_needed, play_in_suit, req) ==
  MeetsWithOrders(n_cards, n_needed, Len(play_in_suit), req,
                  PairOrders(t, play_in_suit))

\* the boolean of the (ok, message) result
is_valid_follow(cards, led, hand, t) ==
  MeetsInSuit(t, Len(cards), Len(led.cards),
              HandInSuit(t, cards, combo_suit(t, led)),
              required_follow_structure(led, hand, t))

\* step 1 of build_valid_follow: the pair orders taken from the runs, in order
RECURSIVE TakeTractorPairs(_, _)
TakeTractorPairs(runs, need) ==
  IF runs = <<>> \/ need <= 0 THEN <<>>
  ELSE Take(Head(runs), need)
         \o TakeTractorPairs(Tail(runs), need - Min2(Len(Head(runs)), need))

\* the first two cards of each listed order group of pool, concatenated
PairsOf(t, pool, orders) ==
  Concat([i \in 1..Len(orders) |-> Take(OrderGroup(t, pool, orders[i]), 2)])

Reverse(s) == [i \in 1..Len(s) |-> s[Len(s) + 1 - i]]

\* step 4: pad with the lowest off-suit cards, then cut to the lead's length
PadOffSuit(t, n_needed, hand, hand_in_suit, chosen) ==
  LET still_need == n_needed - Len(chosen)
      off_suit == SelectSeq(hand, LAMBDA c : c \notin Range(chosen)
                                            /\ c \notin Range(hand_in_suit))
      padded == IF still_need > 0
                THEN chosen \o Take(SortByKey([c \in Range(off_suit) |->
                                                 card_order(t, c)], off_suit),
                                    still_need)
                ELSE chosen
  IN  Take(padded, n_needed)

\* step 3: singles, lowest order first
AddLowSingles(t, need_singles, remaining, chosen) ==
  IF need_singles > 0
  THEN chosen \o Take(SortByKey([c \in Range(remaining) |-> order_of(t, c)],
                                remaining), need_singles)
  ELSE chosen

\* step 2: free pairs, highest order first
FreePairsOf(t, need_free_pairs, remaining) ==
  IF need_free_pairs > 0
  THEN PairsOf(t, remaining, Take(Reverse(PairOrders(t, remaining)), need_free_pairs))
  ELSE <<>>

\* step 1: tractors
TractorPairsOf(t, need_tractor_pairs, hand_in_suit) ==
  IF need_tractor_pairs > 0
  THEN PairsOf(t, hand_in_suit,
               TakeTractorPairs(TractorRuns(PairOrders(t, hand_in_suit)),
                                need_tractor_pairs))
  ELSE <<>>

BuildStep3(t, n_needed, hand, hand_in_suit, req, remaining1, chosen1, chosen2) ==
  PadOffSuit(t, n_needed, hand, hand_in_suit,
             AddLowSingles(t, req.singles, RemoveAll(remaining1, chosen2),
                           chosen1 \o chosen2))

BuildStep2(t, n_needed, hand, hand_in_suit, req, remaining1, chosen1) ==
  BuildStep3(t, n_needed, hand, hand_in_suit, req, remaining1, chosen1,
             FreePairsOf(t, req.pair_cards \div 2, remaining1))

BuildStep1(t, n_needed, hand, hand_in_suit, req, chosen1) ==
  BuildStep2(t, n_needed, hand, hand_in_suit, req,
             RemoveAll(hand_in_suit, chosen1), chosen1)

BuildFrom(t, n_needed, hand, hand_in_suit, req) ==
  BuildStep1(t, n_needed, hand, hand_in_suit, req,
             TractorPairsOf(t, req.tractors \div 2, hand_in_suit))

build_valid_follow(led, hand, t) ==
  BuildFrom(t, Len(led.cards), hand, HandInSuit(t, hand, combo_suit(t, led)),
            required_follow_structure(led, hand, t))

(***************************************************************************)
(* 4. Trick.                                                               *)
(***************************************************************************)
NoCombo == [cards |-> <<>>, type |-> "none", components |-> <<>>]

Trick(t, leader) ==
  [trump |-> t, leader |-> leader, plays |-> <<>>, led_combo |-> NoCombo]

TrickPlay(trick, player_idx, cards) ==
  [trick EXCEPT
     !.led_combo = IF trick.plays = <<>> THEN CardCombo(cards, trick.trump) ELSE @,
     !.plays     = Append(@, <<player_idx, cards>>)]

is_complete(trick) == Len(trick.plays) = 4

RECURSIVE _match_rec(_, _, _)
_match_rec(t, remaining, sizes) ==
  IF sizes = <<>> THEN <<>>
  ELSE LET chunk == Take(sort_hand(t, remaining), Head(sizes))
       IN  <<chunk>> \o _match_rec(t, RemoveAll(remaining, chunk), Tail(sizes))

_match_components(t, cards, template) ==
  _match_rec(t, cards, [i \in 1..Len(template) |-> Len(template[i])])

\* the comparison of two components once their combos are built
ComboBeats(t, n, chal_combo, inc_combo, led_suit) ==
  IF n = 2
  THEN IF chal_combo.type # PAIR THEN FALSE
       ELSE IF inc_combo.type # PAIR THEN TRUE
       ELSE beats(t, top_card(t, chal_combo), top_card(t, inc_combo), led_suit)
  ELSE IF chal_combo.type # TRACTOR THEN FALSE
  ELSE IF inc_combo.type # TRACTOR THEN TRUE
  ELSE beats(t, top_card(t, chal_combo), top_card(t, inc_combo), led_suit)

_component_beats(t, challenger, incumbent, led, led_suit) ==
  LET n          == Len(led)
      chal_suit  == IF challenger # <<>> THEN effective_suit(t, challenger[1])
                    ELSE "None"
  IN  IF chal_suit \notin {led_suit, "TRUMP"} THEN FALSE
      ELSE IF n = 1 THEN beats(t, challenger[1], incumbent[1], led_suit)
      ELSE ComboBeats(t, n, CardCombo(challenger, t), CardCombo(incumbent, t),
                      led_suit)

_play_beats(t, challenger_cards, incumbent_cards, led_components, led_suit) ==
  LET c_suits == {effective_suit(t, challenger_cards[i]) :
                    i \in 1..Len(challenger_cards)}
      c_comps == _match_components(t, challenger_cards, led_components)
      i_comps == _match_components(t, incumbent_cards, led_components)
  IN  IF led_suit \notin c_suits /\ "TRUMP" \notin c_suits THEN FALSE
      ELSE \A k \in 1..Len(led_components) :
             _component_beats(t, c_comps[k], i_comps[k], led_components[k], led_suit)

\* the running best (player, cards) after comparing plays[2..k] in order
RECURSIVE BestPlay(_, _, _, _)
BestPlay(t, plays, led_comps, led_suit) ==
  IF Len(plays) = 1 THEN plays[1]
  ELSE LET best == BestPlay(t, SubSeq(plays, 1, Len(plays) - 1), led_comps, led_suit)
           last == plays[Len(plays)]
       IN  IF _play_beats(t, last[2], best[2], led_comps, led_suit)
           THEN last ELSE best

winner(trick) ==
  LET led_suit  == combo_suit(trick.trump, trick.led_combo)
      led_comps == trick.led_combo.components
  IN  BestPlay(trick.trump, trick.plays, led_comps, led_suit)[1]

\* points counting the cards of the lead only
points_LeadOnly(trick) ==
  SumSeq([k \in 1..Len(trick.plays[1][2]) |-> point_value(trick.plays[1][2][k])])

points(trick) ==
  SumSeq([i \in 1..Len(trick.plays) |->
            SumSeq([k \in 1..Len(trick.plays[i][2]) |->
                      point_value(trick.plays[i][2][k])])])

(***************************************************************************)
(* 5. GameState.                                                           *)
(***************************************************************************)
VARIABLES
  trump_rank,            \* GameState.trump_rank
  declaration,           \* NoDeclaration or <<player, cards>>
  declaration_strength,
  declaring_player,
  declaring_team,
  trump_suit,
  trump,                 \* the TrumpSystem in force
  hands,                 \* player index -> list of cards
  kitty,
  phase,
  current_player,
  tricks,                \* archived tricks
  current_trick,         \* None or a Trick
  scores,                \* team index -> points
  deck,                  \* _deck
  deal_idx,              \* _deal_idx
  ret,                   \* the last public call and what it returned
  misuses,               \* calls made so far that break the driver protocol
  app                    \* TuoLaJiApp: the state kept from round to round

vars == <<trump_rank, declaration, declaration_strength, declaring_player,
          declaring_team, trump_suit, trump, hands, kitty, phase,
          current_player, tricks, current_trick, scores, deck, deal_idx, ret,
          misuses, app>>

DEALING == "dealing"

KITTY == "kitty"

PLAYING == "playing"

SCORING == "scoring"

None == "None"

\* declaration before any bid is accepted (Optional[Tuple] = None)
NoDeclaration == <<>>

\* current_trick before the first trick is opened (Optional[Trick] = None)
NoTrick == [none |-> TRUE]

\* play_cards returning None while the trick is still open (Optional[int]):
\* an integer no seat has, comparable with the winner returned otherwise
NoWinner == -1

KITTY_SIZE == 8

num_players == 4

Players == 0..(num_players - 1)

\* a deck order random.shuffle can produce: position i holds the card at
\* index g * i^5 mod 109 of the unshuffled deck (109 is prime, so every g in
\* 1..108 gives a permutation of the 108 cards)
Pow5(i) == LET sq == (i * i) % 109 IN (((sq * sq) % 109) * i) % 109

Shuffle(g) == [i \in 1..Len(UnshuffledDeck) |-> UnshuffledDeck[(g * Pow5(i)) % 109]]

NumShuffles == 1

make_double_deck == {Shuffle(g) : g \in 1..NumShuffles}

_cards_per_player == (Len(deck) - KITTY_SIZE) \div num_players

\* the kitty starting one player's share too early
_kitty_start_Early == _cards_per_player * (num_players - 1)

_kitty_start == _cards_per_player * num_players

_bid_strength(cards, rank) ==
  IF cards = <<>> THEN 0
  ELSE IF Len(cards) = 1
  THEN IF is_big_joker(cards[1]) THEN 5
       ELSE IF is_small_joker(cards[1]) THEN 3
       ELSE IF cards[1].rank = rank THEN 1
       ELSE 0
  ELSE IF Len(cards) = 2
  THEN IF is_big_joker(cards[1]) /\ is_big_joker(cards[2]) THEN 6
       ELSE IF is_small_joker(cards[1]) /\ is_small_joker(cards[2]) THEN 4
       ELSE IF /\ cards[1].rank = rank
               /\ cards[2].rank = rank
               /\ cards[1].suit = cards[2].suit THEN 2
       ELSE 0
  ELSE 0

\* GameState.__init__ with num_players = 4, then _prepare_deck
GameInit(rank, team, d) ==
  /\ trump_rank = rank
  /\ declaration = NoDeclaration
  /\ declaration_strength = 0
  /\ declaring_player = team * 2
  /\ declaring_team = team
  /\ trump_suit = "S"
  /\ trump = TrumpSystem("S", rank)
  /\ hands = [p \in Players |-> <<>>]
  /\ kitty = <<>>
  /\ phase = DEALING
  /\ current_player = 0
  /\ tricks = <<>>
  /\ current_trick = NoTrick
  /\ scores = [t \in 0..1 |-> 0]
  /\ deck = d
  /\ deal_idx = 0

is_dealing_done == deal_idx >= _kitty_start

\* _finalize_declaration leaving the hands in the order they were dealt
_finalize_declaration_Unsorted(hs) ==
  LET non_joker == IF declaration = NoDeclaration THEN <<>>
                   ELSE SelectSeq(declaration[2], LAMBDA c : ~is_joker(c))
      suit == IF declaration = NoDeclaration THEN "S"
              ELSE IF non_joker # <<>> THEN non_joker[1].suit
              ELSE trump_suit
      t == TrumpSystem(suit, trump_rank)
  IN  /\ declaring_player' = IF declaration = NoDeclaration THEN 0 ELSE declaration[1]
      /\ declaring_team' = IF declaration = NoDeclaration THEN 0 ELSE declaration[1] % 2
      /\ trump_suit' = suit
      /\ trump' = t
      /\ hands' = hs

\* the declaring player, team, trump suit, trump and hands after
\* _finalize_declaration, given the hands it sorts
_finalize_declaration(hs) ==
  LET non_joker == IF declaration = NoDeclaration THEN <<>>
                   ELSE SelectSeq(declaration[2], LAMBDA c : ~is_joker(c))
      suit == IF declaration = NoDeclaration THEN "S"
              ELSE IF non_joker # <<>> THEN non_joker[1].suit
              ELSE trump_suit
      t == TrumpSystem(suit, trump_rank)
  IN  /\ declaring_player' = IF declaration = NoDeclaration THEN 0 ELSE declaration[1]
      /\ declaring_team' = IF declaration = NoDeclaration THEN 0 ELSE declaration[1] % 2
      /\ trump_suit' = suit
      /\ trump' = t
      /\ hands' = [p \in Players |-> sort_hand(t, hs[p])]

deal_next_card ==
  IF deal_idx >= _kitty_start
  THEN /\ ret' = [op |-> "deal_next_card", value |-> None]
       /\ UNCHANGED <<trump_rank, declaration, declaration_strength,
                      declaring_player, declaring_team, trump_suit, trump, hands,
                      kitty, phase, current_player, tricks, current_trick, scores,
                      deck, deal_idx>>
  ELSE LET player_idx == deal_idx % num_players
           card       == deck[deal_idx + 1]
           dealt      == [hands EXCEPT ![player_idx] = Append(@, card)]
       IN  /\ deal_idx' = deal_idx + 1
           /\ ret' = [op |-> "deal_next_card", value |-> <<player_idx, card>>]
           /\ IF deal_idx + 1 >= _kitty_start
              THEN /\ kitty' = SubSeq(deck, _kitty_start + 1, Len(deck))
                   /\ _finalize_declaration(dealt)
                   /\ phase' = KITTY
              ELSE /\ hands' = dealt
                   /\ UNCHANGED <<kitty, phase, declaring_player, declaring_team,
                                  trump_suit, trump>>
           /\ UNCHANGED <<trump_rank, declaration, declaration_strength,
                          current_player, tricks, current_trick, scores, deck>>

\* declare_trump without the check of the phase
DeclareResult_AnyPhase(player_idx, cards) ==
  LET strength == _bid_strength(cards, trump_rank)
  IN  IF \E i \in 1..Len(cards) : cards[i] \notin Range(hands[player_idx])
      THEN <<FALSE, "not in hand">>
      ELSE IF strength = 0 THEN <<FALSE, "not a bid">>
      ELSE IF strength <= declaration_strength THEN <<FALSE, "too weak", strength>>
      ELSE <<TRUE, "accepted", strength>>

\* declare_trump accepting a bid as strong as the current declaration
DeclareResult_AcceptsEqual(player_idx, cards) ==
  LET strength == _bid_strength(cards, trump_rank)
  IN  IF phase # DEALING THEN <<FALSE, "phase">>
      ELSE IF \E i \in 1..Len(cards) : cards[i] \notin Range(hands[player_idx])
      THEN <<FALSE, "not in hand">>
      ELSE IF strength = 0 THEN <<FALSE, "not a bid">>
      ELSE IF strength < declaration_strength THEN <<FALSE, "too weak", strength>>
      ELSE <<TRUE, "accepted", strength>>

\* the (accepted, reason) result of declare_trump; the reason of a too-weak
\* bid names the strength of the bid
DeclareResult(player_idx, cards) ==
  LET strength == _bid_strength(cards, trump_rank)
  IN  IF phase # DEALING THEN <<FALSE, "phase">>
      ELSE IF \E i \in 1..Len(cards) : cards[i] \notin Range(hands[player_idx])
      THEN <<FALSE, "not in hand">>
      ELSE IF strength = 0 THEN <<FALSE, "not a bid">>
      ELSE IF strength <= declaration_strength THEN <<FALSE, "too weak", strength>>
      ELSE <<TRUE, "accepted", strength>>

\* declare_trump recording the bid before it compares the strengths
declare_trump_RecordsFirst(player_idx, cards) ==
  LET strength  == _bid_strength(cards, trump_rank)
      early     == phase # DEALING
                   \/ \E i \in 1..Len(cards) : cards[i] \notin Range(hands[player_idx])
                   \/ strength = 0
      accepted  == ~early /\ strength > declaration_strength
      non_joker == SelectSeq(cards, LAMBDA c : ~is_joker(c))
  IN  /\ ret' = [op |-> "declare_trump",
                 value |-> IF accepted THEN <<TRUE, "accepted", strength>>
                           ELSE IF early THEN <<FALSE, "early">>
                           ELSE <<FALSE, "too weak", strength>>]
      /\ IF ~early
         THEN /\ declaration' = <<player_idx, cards>>
              /\ declaration_strength' = IF accepted THEN strength
                                         ELSE declaration_strength
         ELSE UNCHANGED <<declaration, declaration_strength>>
      /\ UNCHANGED <<trump_rank, declaring_player, declaring_team, trump_suit,
                     trump, hands, kitty, phase, current_player, tricks,
                     current_trick, scores, deck, deal_idx>>

\* declare_trump with a joker bid putting the trump suit back to spades
declare_trump_JokerResets(player_idx, cards) ==
  LET result    == DeclareResult(player_idx, cards)
      non_joker == SelectSeq(cards, LAMBDA c : ~is_joker(c))
      suit      == IF non_joker # <<>> THEN non_joker[1].suit ELSE "S"
  IN  /\ ret' = [op |-> "declare_trump", value |-> result]
      /\ IF result[1]
         THEN /\ declaration' = <<player_idx, cards>>
              /\ declaration_strength' = result[3]
              /\ trump_suit' = suit
              /\ trump' = TrumpSystem(suit, trump_rank)
         ELSE UNCHANGED <<declaration, declaration_strength, trump_suit, trump>>
      /\ UNCHANGED <<trump_rank, declaring_player, declaring_team, hands, kitty,
                     phase, current_player, tricks, current_trick, scores, deck,
                     deal_idx>>

declare_trump(player_idx, cards) ==
  LET result    == DeclareResult(player_idx, cards)
      non_joker == SelectSeq(cards, LAMBDA c : ~is_joker(c))
  IN  /\ ret' = [op |-> "declare_trump", value |-> result]
      /\ IF result[1]
         THEN /\ declaration' = <<player_idx, cards>>
              /\ declaration_strength' = result[3]
              /\ IF non_joker # <<>>
                 THEN /\ trump_suit' = non_joker[1].suit
                      /\ trump' = TrumpSystem(non_joker[1].suit, trump_rank)
                 ELSE UNCHANGED <<trump_suit, trump>>
         ELSE UNCHANGED <<declaration, declaration_strength, trump_suit, trump>>
      /\ UNCHANGED <<trump_rank, declaring_player, declaring_team, hands, kitty,
                     phase, current_player, tricks, current_trick, scores, deck,
                     deal_idx>>

\* for c in cards: hand.remove(c) -- stops at the first card that is not in
\* the hand (ValueError), keeping the removals made so far
RECURSIVE RemoveEach(_, _)
RemoveEach(hand, cards) ==
  IF cards = <<>> THEN [hand |-> hand, ok |-> TRUE]
  ELSE IF Head(cards) \in Range(hand)
       THEN RemoveEach(Remove(hand, Head(cards)), Tail(cards))
       ELSE [hand |-> hand, ok |-> FALSE]

\* bury_kitty leaving the turn with the current player
bury_kitty_KeepsTurn(cards_to_bury) ==
  LET player_idx == declaring_player
      removed    == RemoveEach(hands[player_idx] \o kitty, cards_to_bury)
  IN  /\ Len(cards_to_bury) = KITTY_SIZE
      /\ removed.ok
      /\ hands' = [hands EXCEPT ![player_idx] = removed.hand]
      /\ kitty' = cards_to_bury
      /\ phase' = PLAYING
      /\ current_trick' = Trick(trump, player_idx)
      /\ ret' = [op |-> "bury_kitty", value |-> None]
      /\ UNCHANGED <<trump_rank, declaration, declaration_strength,
                     declaring_player, declaring_team, trump_suit, trump,
                     current_player, tricks, scores, deck, deal_idx>>

bury_kitty(cards_to_bury) ==
  LET player_idx == declaring_player
      removed    == RemoveEach(hands[player_idx] \o kitty, cards_to_bury)
  IN  IF Len(cards_to_bury) # KITTY_SIZE
      THEN /\ ret' = [op |-> "bury_kitty", value |-> "AssertionError"]
           /\ UNCHANGED <<trump_rank, declaration, declaration_strength,
                          declaring_player, declaring_team, trump_suit, trump,
                          hands, kitty, phase, current_player, tricks,
                          current_trick, scores, deck, deal_idx>>
      ELSE /\ hands' = [hands EXCEPT ![player_idx] = removed.hand]
           /\ IF removed.ok
              THEN /\ kitty' = cards_to_bury
                   /\ phase' = PLAYING
                   /\ current_trick' = Trick(trump, player_idx)
                   /\ current_player' = player_idx
                   /\ ret' = [op |-> "bury_kitty", value |-> None]
              ELSE /\ ret' = [op |-> "bury_kitty", value |-> "ValueError"]
                   /\ UNCHANGED <<kitty, phase, current_trick, current_player>>
           /\ UNCHANGED <<trump_rank, declaration, declaration_strength,
                          declaring_player, declaring_team, trump_suit, trump,
                          tricks, scores, deck, deal_idx>>

\* _all_cards_played never reporting the end of the round
_all_cards_played_Never(hs) == FALSE

_all_cards_played(hs) == \A p \in Players : Len(hs[p]) = 0

\* play_cards leaving the points of the kitty out of the last trick
play_cards_KittyUncounted(player_idx, cards) ==
  LET removed == RemoveEach(hands[player_idx], cards)
      hs      == [hands EXCEPT ![player_idx] = removed.hand]
      played  == TrickPlay(current_trick, player_idx, cards)
      w       == winner(played)
      pts     == points(played)
      winning_team == w % 2
      kitty_pts == SumSeq([i \in 1..Len(kitty) |-> point_value(kitty[i])])
  IN  IF player_idx # current_player \/ phase # PLAYING
      THEN /\ ret' = [op |-> "play_cards", value |-> "AssertionError"]
           /\ UNCHANGED <<trump_rank, declaration, declaration_strength,
                          declaring_player, declaring_team, trump_suit, trump,
                          hands, kitty, phase, current_player, tricks,
                          current_trick, scores, deck, deal_idx>>
      ELSE /\ hands' = hs
           /\ IF ~removed.ok
              THEN /\ ret' = [op |-> "play_cards", value |-> "ValueError"]
                   /\ UNCHANGED <<current_trick, tricks, scores, phase,
                                  current_player>>
              ELSE IF is_complete(played)
              THEN /\ tricks' = Append(tricks, played)
                   /\ ret' = [op |-> "play_cards", value |-> w]
                   /\ IF _all_cards_played(hs)
                      THEN /\ scores' = [scores EXCEPT
                                           ![winning_team] = @ + pts]
                           /\ phase' = SCORING
                           /\ current_trick' = played
                           /\ UNCHANGED current_player
                      ELSE /\ scores' = [scores EXCEPT ![winning_team] = @ + pts]
                           /\ current_trick' = Trick(trump, w)
                           /\ current_player' = w
                           /\ UNCHANGED phase
              ELSE /\ current_trick' = played
                   /\ current_player' = (player_idx + 1) % num_players
                   /\ ret' = [op |-> "play_cards", value |-> NoWinner]
                   /\ UNCHANGED <<tricks, scores, phase>>
           /\ UNCHANGED <<trump_rank, declaration, declaration_strength,
                          declaring_player, declaring_team, trump_suit, trump,
                          kitty, deck, deal_idx>>

\* play_cards handing the lead of the next trick to the next seat
play_cards_NextSeatLeads(player_idx, cards) ==
  LET removed == RemoveEach(hands[player_idx], cards)
      hs      == [hands EXCEPT ![player_idx] = removed.hand]
      played  == TrickPlay(current_trick, player_idx, cards)
      w       == winner(played)
      pts     == points(played)
      winning_team == w % 2
      kitty_pts == SumSeq([i \in 1..Len(kitty) |-> point_value(kitty[i])])
  IN  IF player_idx # current_player \/ phase # PLAYING
      THEN /\ ret' = [op |-> "play_cards", value |-> "AssertionError"]
           /\ UNCHANGED <<trump_rank, declaration, declaration_strength,
                          declaring_player, declaring_team, trump_suit, trump,
                          hands, kitty, phase, current_player, tricks,
                          current_trick, scores, deck, deal_idx>>
      ELSE /\ hands' = hs
           /\ IF ~removed.ok
              THEN /\ ret' = [op |-> "play_cards", value |-> "ValueError"]
                   /\ UNCHANGED <<current_trick, tricks, scores, phase,
                                  current_player>>
              ELSE IF is_complete(played)
              THEN /\ tricks' = Append(tricks, played)
                   /\ ret' = [op |-> "play_cards", value |-> w]
                   /\ IF _all_cards_played(hs)
                      THEN /\ scores' = [scores EXCEPT
                                           ![winning_team] = @ + pts + kitty_pts]
                           /\ phase' = SCORING
                           /\ current_trick' = played
                           /\ UNCHANGED current_player
                      ELSE /\ scores' = [scores EXCEPT ![winning_team] = @ + pts]
                           /\ current_trick' = Trick(trump, w)
                           /\ current_player' = (player_idx + 1) % num_players
                           /\ UNCHANGED phase
              ELSE /\ current_trick' = played
                   /\ current_player' = (player_idx + 1) % num_players
                   /\ ret' = [op |-> "play_cards", value |-> NoWinner]
                   /\ UNCHANGED <<tricks, scores, phase>>
           /\ UNCHANGED <<trump_rank, declaration, declaration_strength,
                          declaring_player, declaring_team, trump_suit, trump,
                          kitty, deck, deal_idx>>

play_cards(player_idx, cards) ==
  LET removed == RemoveEach(hands[player_idx], cards)
      hs      == [hands EXCEPT ![player_idx] = removed.hand]
      played  == TrickPlay(current_trick, player_idx, cards)
      w       == winner(played)
      pts     == points(played)
      winning_team == w % 2
      kitty_pts == SumSeq([i \in 1..Len(kitty) |-> point_value(kitty[i])])
  IN  IF player_idx # current_player \/ phase # PLAYING
      THEN /\ ret' = [op |-> "play_cards", value |-> "AssertionError"]
           /\ UNCHANGED <<trump_rank, declaration, declaration_strength,
                          declaring_player, declaring_team, trump_suit, trump,
                          hands, kitty, phase, current_player, tricks,
                          current_trick, scores, deck, deal_idx>>
      ELSE /\ hands' = hs
           /\ IF ~removed.ok
              THEN /\ ret' = [op |-> "play_cards", value |-> "ValueError"]
                   /\ UNCHANGED <<current_trick, tricks, scores, phase,
                                  current_player>>
              ELSE IF is_complete(played)
              THEN /\ tricks' = Append(tricks, played)
                   /\ ret' = [op |-> "play_cards", value |-> w]
                   /\ IF _all_cards_played(hs)
                      THEN /\ scores' = [scores EXCEPT
                                           ![winning_team] = @ + pts + kitty_pts]
                           /\ phase' = SCORING
                           /\ current_trick' = played
                           /\ UNCHANGED current_player
                      ELSE /\ scores' = [scores EXCEPT ![winning_team] = @ + pts]
                           /\ current_trick' = Trick(trump, w)
                           /\ current_player' = w
                           /\ UNCHANGED phase
              ELSE /\ current_trick' = played
                   /\ current_player' = (player_idx + 1) % num_players
                   /\ ret' = [op |-> "play_cards", value |-> NoWinner]
                   /\ UNCHANGED <<tricks, scores, phase>>
           /\ UNCHANGED <<trump_rank, declaration, declaration_strength,
                          declaring_player, declaring_team, trump_suit, trump,
                          kitty, deck, deal_idx>>

defending_team == 1 - declaring_team

attacker_points == scores[defending_team]

\* compute_round_outcome with the upper end of each band one point too high
compute_round_outcome_Inclusive ==
  LET pts      == attacker_points
      def_team == declaring_team
      atk_team == 1 - def_team
      attackers_win == pts > 80
      level_delta == IF pts <= 40 THEN 2
                     ELSE IF pts <= 80 THEN 1
                     ELSE IF pts <= 120 THEN 0
                     ELSE IF pts <= 160 THEN 1
                     ELSE IF pts <= 200 THEN 2
                     ELSE 3
  IN  [attacker_pts  |-> pts,
       attackers_win |-> attackers_win,
       winner_team   |-> IF attackers_win THEN atk_team ELSE def_team,
       leveling_team |-> IF ~attackers_win THEN def_team ELSE atk_team,
       level_delta   |-> level_delta,
       def_team      |-> def_team,
       atk_team      |-> atk_team]

compute_round_outcome ==
  LET pts      == attacker_points
      def_team == declaring_team
      atk_team == 1 - def_team
      attackers_win == ~(pts < 80)
      level_delta == IF pts < 40 THEN 2
                     ELSE IF pts < 80 THEN 1
                     ELSE IF pts < 120 THEN 0
                     ELSE IF pts < 160 THEN 1
                     ELSE IF pts < 200 THEN 2
                     ELSE 3
  IN  [attacker_pts  |-> pts,
       attackers_win |-> attackers_win,
       winner_team   |-> IF attackers_win THEN atk_team ELSE def_team,
       leveling_team |-> IF ~attackers_win THEN def_team ELSE atk_team,
       level_delta   |-> level_delta,
       def_team      |-> def_team,
       atk_team      |-> atk_team]

(***************************************************************************)
(* The round as the driver runs it (GameScreen): cards are dealt one by    *)
(* one while the player just dealt a card may bid, the declarer buries     *)
(* eight cards of the enlarged hand, then the current player plays; a      *)
(* follow that is_valid_follow rejects is replaced by build_valid_follow   *)
(* (_bot_play).                                                            *)
(***************************************************************************)
MaxBidCards == 2

FreeTricks == 1

MaxLead == 2

Declarable(c) == c.rank = trump_rank \/ is_joker(c)

\* the cards a bid is drawn from: the player's trump-rank cards and jokers,
\* one other card of the hand, and one trump-rank card or joker held elsewhere
BidPool(p) ==
  LET mine   == {c \in Range(hands[p]) : Declarable(c)}
      others == {i \in 1..Len(hands[p]) : ~Declarable(hands[p][i])}
      absent == {i \in 1..Len(deck) : Declarable(deck[i])
                                      /\ deck[i] \notin Range(hands[p])}
  IN  mine
        \cup (IF others = {} THEN {}
              ELSE {hands[p][CHOOSE i \in others : \A k \in others : i <= k]})
        \cup (IF absent = {} THEN {}
              ELSE {deck[CHOOSE i \in absent : \A k \in absent : i <= k]})

BidInputs(p) ==
  UNION {[1..n -> BidPool(p)] : n \in 0..MaxBidCards}

Last(h, n) == SubSeq(h, Len(h) - n + 1, Len(h))

\* eight cards of the enlarged hand: the kitty as dealt, or the declarer's
\* eight strongest or eight weakest cards
BuryInputs ==
  LET h == hands[declaring_player]
  IN  {kitty, Take(h, KITTY_SIZE), Last(h, KITTY_SIZE)}

\* leads: the strongest or the weakest n cards of the hand, when one suit
LeadInputs(h) ==
  IF Len(tricks) >= FreeTricks THEN {Last(h, 1)}
  ELSE {cs \in {Take(h, n) : n \in 1..Min2(MaxLead, Len(h))}
                 \cup {Last(h, n) : n \in 1..Min2(MaxLead, Len(h))} :
          is_valid_lead(cs, trump)}

\* _bot_play: the chosen cards if they are a valid follow, else the fallback
BotFollow(cards, h) ==
  IF is_valid_follow(cards, current_trick.led_combo, h, trump) THEN cards
  ELSE build_valid_follow(current_trick.led_combo, h, trump)

FollowInputs(h) ==
  LET n == Len(current_trick.led_combo.cards)
  IN  IF Len(tricks) >= FreeTricks
      THEN {build_valid_follow(current_trick.led_combo, h, trump)}
      ELSE {BotFollow(Take(h, n), h), BotFollow(Last(h, n), h)}

PlayInputs ==
  LET h == hands[current_player]
  IN  IF current_trick.plays = <<>> THEN LeadInputs(h) ELSE FollowInputs(h)

\* TuoLaJiApp.__init__: both teams at level 2, team 0 defends, player 2
\* buries the kitty
AppInit ==
  [team_levels |-> [t \in 0..1 |-> "2"], defending_team |-> 0,
   kitty_player |-> 2, round_num |-> 0]

\* _start_game / GameScreen.__init__: a GameState at the defending team's
\* level, its declaring player overridden by the kitty player
GameScreenInit(a, d) ==
  /\ trump_rank = a.team_levels[a.defending_team]
  /\ declaration = NoDeclaration
  /\ declaration_strength = 0
  /\ declaring_player = a.kitty_player
  /\ declaring_team = a.defending_team
  /\ trump_suit = "S"
  /\ trump = TrumpSystem("S", a.team_levels[a.defending_team])
  /\ hands = [p \in Players |-> <<>>]
  /\ kitty = <<>>
  /\ phase = DEALING
  /\ current_player = 0
  /\ tricks = <<>>
  /\ current_trick = NoTrick
  /\ scores = [t \in 0..1 |-> 0]
  /\ deck = d
  /\ deal_idx = 0

Init ==
  /\ app = AppInit
  /\ \E d \in make_double_deck : GameScreenInit(app, d)
  /\ ret = [op |-> "__init__", value |-> None]
  /\ misuses = 0

DealtNone == [op |-> "deal_next_card", value |-> None]

\* _deal_one: the driver calls deal_next_card until it returns None
Deal ==
  /\ phase \in {DEALING, KITTY}
  /\ ret # DealtNone
  /\ deal_next_card
  /\ UNCHANGED <<misuses, app>>

\* _deal_one / _bot_maybe_declare: the player who was just dealt a card may bid
\* with it, alone or beside another trump-rank card or joker of the hand
RecipientBids ==
  IF ret.op = "deal_next_card" /\ ret.value # None
  THEN LET p    == ret.value[1]
           card == ret.value[2]
           mine == {c \in Range(hands[p]) : Declarable(c)}
       IN  IF Declarable(card)
           THEN {<<p, <<card>>>>} \cup {<<p, <<c, card>>>> : c \in mine \ {card}}
           ELSE {}
  ELSE {}

Declare ==
  /\ \E b \in RecipientBids : declare_trump(b[1], b[2])
  /\ UNCHANGED <<misuses, app>>

\* _on_dealing_done / _do_kitty: once deal_next_card has returned None
Bury ==
  /\ phase = KITTY
  /\ ret = DealtNone
  /\ \E cards \in BuryInputs : bury_kitty(cards)
  /\ UNCHANGED <<misuses, app>>

Play ==
  /\ phase = PLAYING
  /\ \E cards \in PlayInputs : play_cards(current_player, cards)
  /\ UNCHANGED <<misuses, app>>

Next == Deal \/ Declare \/ Bury \/ Play

Spec == Init /\ [][Next]_vars

(***************************************************************************)
(* Round after round (TuoLaJiApp): a round is played to its end, the       *)
(* result screen computes the outcome and advances the levels and roles,   *)
(* and a new GameScreen is started.  The round itself is abridged to what  *)
(* its end leaves in the fields the result screen reads: the declaring     *)
(* player and team that _finalize_declaration set, and the final scores.   *)
(***************************************************************************)
MaxRounds == 2

\* the new app state after advance_round(outcome)
advance_round(a, outcome) ==
  LET leveling_team == outcome.leveling_team
      delta         == outcome.level_delta
      old_kitty     == a.kitty_player
      cur_idx       == RANK_VAL[a.team_levels[leveling_team]]
      new_idx       == Min2(cur_idx + delta, Len(RANKS) - 1)
  IN  [team_levels    |-> IF delta > 0
                          THEN [a.team_levels EXCEPT
                                  ![leveling_team] = RANKS[new_idx + 1]]
                          ELSE a.team_levels,
       defending_team |-> IF ~outcome.attackers_win THEN a.defending_team
                          ELSE outcome.atk_team,
       kitty_player   |-> IF ~outcome.attackers_win
                          THEN (a.kitty_player + 2) % 4
                          ELSE (old_kitty + 1) % 4,
       round_num      |-> a.round_num + 1]

\* the attacker point totals a round can end with: the card points are
\* multiples of 5 and total 200
PointChoices == {5 * k : k \in 0..40}

\* a round played from the first deal to the last trick
RoundPlayed ==
  /\ phase = DEALING
  /\ \E winner_of_bid \in Players : \E pts \in PointChoices :
       /\ declaring_player' = winner_of_bid
       /\ declaring_team' = winner_of_bid % 2
       /\ scores' = [t \in 0..1 |-> IF t = winner_of_bid % 2 THEN 200 - pts
                                    ELSE pts]
  /\ phase' = SCORING
  /\ deal_idx' = _kitty_start
  /\ kitty' = SubSeq(deck, _kitty_start + 1, Len(deck))
  /\ ret' = [op |-> "play_cards", value |-> declaring_player']
  /\ UNCHANGED <<trump_rank, declaration, declaration_strength, trump_suit,
                 trump, hands, current_player, tricks, current_trick, deck,
                 misuses, app>>

\* _show_result: the outcome is computed and handed to advance_round
ShowResult ==
  /\ phase = SCORING
  /\ ret.op = "play_cards"
  /\ ret' = [op |-> "_show_result", value |-> compute_round_outcome]
  /\ app' = advance_round(app, compute_round_outcome)
  /\ UNCHANGED <<trump_rank, declaration, declaration_strength,
                 declaring_player, declaring_team, trump_suit, trump, hands,
                 kitty, phase, current_player, tricks, current_trick, scores,
                 deck, deal_idx, misuses>>

\* _show_start / _start_game: the next round's GameScreen
_start_game ==
  /\ ret.op = "_show_result"
  /\ app.round_num < MaxRounds
  /\ trump_rank' = app.team_levels[app.defending_team]
  /\ declaration' = NoDeclaration
  /\ declaration_strength' = 0
  /\ declaring_player' = app.kitty_player
  /\ declaring_team' = app.defending_team
  /\ trump_suit' = "S"
  /\ trump' = TrumpSystem("S", app.team_levels[app.defending_team])
  /\ hands' = [p \in Players |-> <<>>]
  /\ kitty' = <<>>
  /\ phase' = DEALING
  /\ current_player' = 0
  /\ tricks' = <<>>
  /\ current_trick' = NoTrick
  /\ scores' = [t \in 0..1 |-> 0]
  /\ \E d \in make_double_deck : deck' = d
  /\ deal_idx' = 0
  /\ ret' = [op |-> "__init__", value |-> None]
  /\ UNCHANGED <<misuses, app>>

NextRounds == RoundPlayed \/ ShowResult \/ _start_game

SpecRounds == Init /\ [][NextRounds]_vars

(***************************************************************************)
(* Dealing with free bidding: between two deals any player may call        *)
(* declare_trump with any list of up to MaxBidCards cards of BidPool.      *)
(***************************************************************************)
DeclareAny ==
  /\ \E p \in Players : \E cards \in BidInputs(p) : declare_trump(p, cards)
  /\ UNCHANGED <<misuses, app>>

NextDeal == Deal \/ DeclareAny

SpecDeal == Init /\ [][NextDeal]_vars

(***************************************************************************)
(* A round in which the caller may also break the protocol: the public     *)
(* methods are called in any phase, by any player, with cards that are not *)
(* held or with the wrong number of cards.  At most MaxMisuses such calls  *)
(* are made; the calls in between are the driver's (the human player bids, *)
(* the kitty is buried as dealt, every play is the weakest card or the     *)
(* fallback follow).                                                       *)
(***************************************************************************)
MaxMisuses == 1

HumanBid ==
  /\ \E b \in {r \in RecipientBids : r[1] = 0} : declare_trump(b[1], b[2])
  /\ UNCHANGED <<misuses, app>>

BuryDealt == phase = KITTY /\ bury_kitty(kitty) /\ UNCHANGED <<misuses, app>>

PlayLow ==
  /\ phase = PLAYING
  /\ hands[current_player] # <<>>
  /\ LET h == hands[current_player]
     IN  IF current_trick.plays = <<>>
         THEN play_cards(current_player, Last(h, 1))
         ELSE play_cards(current_player,
                         build_valid_follow(current_trick.led_combo, h, trump))
  /\ UNCHANGED <<misuses, app>>

Misuse(call) == misuses < MaxMisuses /\ call /\ misuses' = misuses + 1 /\ UNCHANGED app

\* a card that player p does not hold
Foreign(p) ==
  LET q == CHOOSE q \in Players : q # p /\ (hands[q] # <<>> \/ \A r \in Players : r = p \/ hands[r] = <<>>)
  IN  IF hands[q] # <<>> THEN <<hands[q][1]>> ELSE <<deck[Len(deck)]>>

MisDeal == Misuse((phase \notin {DEALING, KITTY} \/ ret = DealtNone) /\ deal_next_card)

MisDeclare ==
  Misuse(/\ phase # DEALING
         /\ \E p \in Players : declare_trump(p, Take(hands[p], 1)))

\* bury_kitty outside the kitty phase, with seven cards, or with a card that
\* is not in the enlarged hand
MisBuryInputs ==
  LET h == hands[declaring_player] \o kitty
  IN  (IF phase # KITTY /\ Len(h) >= KITTY_SIZE THEN {Last(h, KITTY_SIZE)} ELSE {})
        \cup {Take(h, KITTY_SIZE - 1)}
        \cup (IF Len(h) >= KITTY_SIZE - 1
              THEN {Take(h, KITTY_SIZE - 1) \o Foreign(declaring_player)}
              ELSE {})

MisBury == Misuse(\E cards \in MisBuryInputs : bury_kitty(cards))

\* play_cards out of turn or outside the playing phase, or with a card that
\* is not in the hand
MisPlay ==
  Misuse(\/ \E p \in Players :
              /\ p # current_player \/ phase # PLAYING
              /\ play_cards(p, Take(hands[p], 1))
         \/ /\ phase = PLAYING
            /\ current_trick.plays # <<>>
            /\ hands[current_player] # <<>>
            /\ play_cards(current_player,
                          Take(hands[current_player], 1) \o Foreign(current_player)))

NextAny ==
  \/ Deal \/ HumanBid \/ BuryDealt \/ PlayLow
  \/ MisDeal \/ MisDeclare \/ MisBury \/ MisPlay

SpecAny == Init /\ [][NextAny]_vars

(***************************************************************************)
(* Properties of a round                                                   *)
(***************************************************************************)
PhaseRank(ph) ==
  IF ph = DEALING THEN 0 ELSE IF ph = KITTY THEN 1 ELSE IF ph = PLAYING THEN 2 ELSE 3

HandCount == SumSeq([i \in 1..num_players |-> Len(hands[i - 1])])

CardsIn(tr) == SumSeq([i \in 1..Len(tr.plays) |-> Len(tr.plays[i][2])])

\* cards played into tricks: the archived tricks and the trick in progress
PlayedCount ==
  SumSeq([i \in 1..Len(tricks) |-> CardsIn(tricks[i])])
    + (IF current_trick = NoTrick \/ is_complete(current_trick) THEN 0
       ELSE CardsIn(current_trick))

\* cards of the deck that deal_next_card has not handed out and that are not
\* in the kitty yet
Undealt == IF phase = DEALING THEN Len(deck) - deal_idx ELSE 0

\* C1: whatever public operations are called, the phase never moves backward
\* in the order DEALING, KITTY, PLAYING, SCORING
C1_PhaseNeverBackward == [][PhaseRank(phase') >= PhaseRank(phase)]_vars

\* C2 as stated: after every step in DEALING, KITTY or PLAYING the cards in
\* the four hands, the kitty and the tricks number 108
C2_HandsKittyPlayedIs108 ==
  (ret.op # "__init__" /\ phase \in {DEALING, KITTY, PLAYING})
    => HandCount + Len(kitty) + PlayedCount = 108

\* C2 amended: in DEALING, KITTY and PLAYING the cards in the four hands, the
\* kitty, the tricks and the undealt part of the deck number 108
C2_Conservation ==
  phase \in {DEALING, KITTY, PLAYING}
    => HandCount + Len(kitty) + PlayedCount + Undealt = 108

C2_Witness ==
  /\ phase = PLAYING
  /\ Len(tricks) >= 1
  /\ current_trick.plays # <<>>
  /\ HandCount + Len(kitty) + PlayedCount = 108

\* C8: a declare_trump call is accepted only if its cards are in the caller's
\* hand and its bid strength is in 1..6 and strictly above the current
\* declaration strength, which it then becomes
C8_AcceptedOnlyIfStronger ==
  [][(ret'.op = "declare_trump" /\ ret'.value[1])
       => LET p     == declaration'[1]
              cards == declaration'[2]
          IN  /\ phase = DEALING
              /\ Range(cards) \subseteq Range(hands[p])
              /\ declaration_strength' = _bid_strength(cards, trump_rank)
              /\ declaration_strength' \in 1..6
              /\ declaration_strength' > declaration_strength]_vars

\* a small joker (strength 3) is rejected after a big joker (strength 5)
\* overrode a trump-rank pair
C8_Witness ==
  /\ ret = [op |-> "declare_trump", value |-> <<FALSE, "too weak", 3>>]
  /\ declaration_strength = 5
  /\ is_big_joker(declaration[2][1])

\* C9: a declare_trump call that is not accepted leaves the declaration, its
\* strength, the trump suit, the hands, the kitty and the phase unchanged
C9_RejectedChangesNothing ==
  [][(ret'.op = "declare_trump" /\ ~ret'.value[1])
       => UNCHANGED <<declaration, declaration_strength, trump_suit, trump,
                      hands, kitty, phase>>]_vars

C9_Witness ==
  /\ ret.op = "declare_trump"
  /\ ~ret.value[1]
  /\ Len(ret.value) = 3
  /\ ret.value[3] = declaration_strength
  /\ declaration # NoDeclaration

\* C10: dealing is done exactly when 100 cards have been dealt, and the cards
\* dealt are pairwise different physical cards
C10_DoneAfterHundredDistinct ==
  /\ is_dealing_done <=> (HandCount = 100)
  /\ HandCount <= 100
  /\ HandCount = deal_idx
  /\ Cardinality(UNION {Range(hands[p]) : p \in Players}) = HandCount

C10_Witness == is_dealing_done /\ HandCount = 100 /\ phase = KITTY

(***************************************************************************)
(* The end of dealing                                                      *)
(***************************************************************************)
\* the declaration d shows a suit: one of its cards is not a joker
HasSuit(d) == d # NoDeclaration /\ \E i \in 1..Len(d[2]) : ~is_joker(d[2][i])

\* the suit of the first card of d that is not a joker
SuitOf(d) == SelectSeq(d[2], LAMBDA c : ~is_joker(c))[1].suit

\* strongest first: card_order never increases along the hand
IsSortedDesc(t, h) ==
  \A i \in 1..Len(h) : \A j \in i..Len(h) : card_order(t, h[i]) >= card_order(t, h[j])

\* the call that deals the last card that is not a kitty card
LastDeal == deal_idx < _kitty_start /\ deal_idx' >= _kitty_start

\* C11: the deal_next_card call that deals the last non-kitty card sets the
\* phase to KITTY, puts the 8 undealt cards in the kitty, leaves 25 cards in
\* every hand, makes the player of the last accepted declaration the
\* declaring player (team = player mod 2; player 0, team 0 and spades when
\* nothing was declared), and sorts every hand strongest first under the
\* final trump; the trump suit is the suit of the most recent accepted
\* declaration that showed a non-joker card: during dealing an accepted
\* declaration with a non-joker card sets the suit, no other step changes it,
\* and the last deal keeps it unless the standing declaration shows a suit
C11_LastDealFinalizes ==
  [][/\ LastDeal =>
          /\ ret'.op = "deal_next_card"
          /\ phase' = KITTY
          /\ kitty' = SubSeq(deck, deal_idx' + 1, Len(deck))
          /\ Len(kitty') = 8
          /\ \A p \in Players : /\ Len(hands'[p]) = 25
                                /\ Range(hands'[p]) \cap Range(kitty') = {}
                                /\ IsSortedDesc(trump', hands'[p])
          /\ declaring_player' = IF declaration = NoDeclaration THEN 0
                                 ELSE declaration[1]
          /\ declaring_team' = IF declaration = NoDeclaration THEN 0
                               ELSE declaration[1] % 2
          /\ trump_suit' = IF declaration = NoDeclaration THEN "S"
                           ELSE IF HasSuit(declaration) THEN SuitOf(declaration)
                           ELSE trump_suit
          /\ trump' = TrumpSystem(trump_suit', trump_rank)
     /\ (phase = DEALING /\ ~LastDeal) =>
          trump_suit' = IF declaration' # declaration /\ HasSuit(declaration')
                        THEN SuitOf(declaration')
                        ELSE trump_suit
     /\ (phase = DEALING /\ declaration = NoDeclaration) => trump_suit = "S"]_vars

\* dealing ended under a joker declaration made after a suit had been declared
C11_Witness ==
  /\ phase = KITTY
  /\ ret.op = "deal_next_card"
  /\ ret # DealtNone
  /\ declaration # NoDeclaration
  /\ ~HasSuit(declaration)
  /\ trump_suit # "S"
  /\ declaring_player = declaration[1]
  /\ declaring_team = 1
  /\ \A p \in Players : IsSortedDesc(trump, hands[p])

\* C12: once dealing is complete no declare_trump call is accepted, and the
\* trump suit, the trump rank, the declaring player and the declaring team
\* never change again, whatever public operation is called
C12_FixedAfterDealing ==
  [][is_dealing_done =>
       /\ ~(ret'.op = "declare_trump" /\ ret'.value[1])
       /\ UNCHANGED <<trump_suit, trump_rank, trump, declaring_player,
                      declaring_team, declaration, declaration_strength>>]_vars

\* after dealing, a player whose strongest card outbids the standing
\* declaration called declare_trump and was turned down
C12_Witness ==
  /\ is_dealing_done
  /\ ret = [op |-> "declare_trump", value |-> <<FALSE, "phase">>]
  /\ phase \in {PLAYING, SCORING}
  /\ \E p \in Players :
       /\ hands[p] # <<>>
       /\ _bid_strength(Take(hands[p], 1), trump_rank) > declaration_strength

\* an accepted declare_trump call has just returned
Accepted == ret.op = "declare_trump" /\ ret.value[1]

\* C13: right after an accepted declaration the trump suit is the suit of
\* its non-joker cards, or, when it is made of jokers only, the suit in force
\* before the call, which is spades as long as nothing was declared
C13_AcceptedSetsSuit ==
  [][Accepted' =>
       LET cards == declaration'[2]
       IN  /\ \A i \in 1..Len(cards) :
                ~is_joker(cards[i]) => trump_suit' = cards[i].suit
           /\ (\A i \in 1..Len(cards) : is_joker(cards[i]))
                => /\ trump_suit' = trump_suit
                   /\ declaration = NoDeclaration => trump_suit' = "S"
           /\ trump' = TrumpSystem(trump_suit', trump_rank)]_vars

\* a joker bid was accepted over a declared suit other than spades
C13_Witness ==
  /\ Accepted
  /\ phase = DEALING
  /\ ~HasSuit(declaration)
  /\ trump_suit # "S"

\* C14: right after an accepted declaration every hand is in descending
\* card_order under the trump in force after the call
C14_HandsSortedAfterAccepted ==
  (Accepted /\ phase = DEALING) => \A p \in Players : IsSortedDesc(trump, hands[p])

(***************************************************************************)
(* The burial and the play of the tricks                                   *)
(***************************************************************************)
\* C15: bury_kitty called in the KITTY phase with 8 distinct cards of the
\* declarer's hand enlarged by the kitty makes those 8 cards the kitty,
\* leaves the declarer the other 25 cards of the enlarged hand, leaves the
\* other hands alone, sets the phase to PLAYING and makes the declarer the
\* current player and the leader of a new empty trick
C15_BuryKitty ==
  [][(phase = KITTY /\ ret'.op = "bury_kitty") =>
       LET d        == declaring_player
           enlarged == hands[d] \o kitty
       IN  /\ kitty' \in BuryInputs
           /\ Len(kitty') = 8
           /\ Cardinality(Range(kitty')) = 8
           /\ hands'[d] = SelectSeq(enlarged, LAMBDA c : c \notin Range(kitty'))
           /\ Len(hands'[d]) = 25
           /\ \A p \in Players \ {d} : hands'[p] = hands[p]
           /\ phase' = PLAYING
           /\ current_player' = d
           /\ current_trick'.leader = d
           /\ current_trick'.plays = <<>>
           /\ tricks' = <<>>]_vars

\* a declarer other than player 0 has buried cards that were not all dealt
\* to the kitty
C15_Witness ==
  /\ ret = [op |-> "bury_kitty", value |-> None]
  /\ phase = PLAYING
  /\ declaring_player # 0
  /\ current_player = declaring_player
  /\ Range(kitty) # Range(SubSeq(deck, _kitty_start + 1, Len(deck)))

\* the plays of a trick are made in seat order from its leader
SeatOrder(tr) ==
  \A i \in 1..Len(tr.plays) : tr.plays[i][1] = (tr.leader + i - 1) % num_players

\* C16: in PLAYING the plays of a trick are made in seat order from the
\* trick's leader, each player once: a play by p that does not fill the trick
\* passes the turn to (p + 1) mod 4, and the fourth play archives the trick
\* and, if cards remain, makes its winner the current player and the leader
\* of a new empty trick
C16_SeatOrder ==
  [][(phase = PLAYING /\ ret'.op = "play_cards") =>
       LET p == current_player
           n == Len(current_trick.plays)
       IN  /\ p = (current_trick.leader + n) % num_players
           /\ SeatOrder(current_trick)
           /\ n < 4
           /\ IF n < 3
              THEN /\ current_player' = (p + 1) % num_players
                   /\ Len(current_trick'.plays) = n + 1
                   /\ current_trick'.plays[n + 1][1] = p
                   /\ current_trick'.leader = current_trick.leader
                   /\ SubSeq(current_trick'.plays, 1, n) = current_trick.plays
                   /\ ret'.value = NoWinner
                   /\ tricks' = tricks
              ELSE LET done == tricks'[Len(tricks')]
                   IN  /\ Len(tricks') = Len(tricks) + 1
                       /\ Len(done.plays) = 4
                       /\ SeatOrder(done)
                       /\ {done.plays[i][1] : i \in 1..4} = Players
                       /\ done.plays[4][1] = p
                       /\ ret'.value = winner(done)
                       /\ IF \E q \in Players : hands'[q] # <<>>
                          THEN /\ current_player' = winner(done)
                               /\ current_trick' = Trick(trump, winner(done))
                               /\ phase' = PLAYING
                          ELSE phase' = SCORING]_vars

\* a trick was won by a player other than its leader and the player who
\* played last, and the winner leads the next trick
C16_Witness ==
  /\ phase = PLAYING
  /\ Len(tricks) >= 1
  /\ current_trick.plays = <<>>
  /\ LET done == tricks[Len(tricks)]
     IN  /\ current_player = winner(done)
         /\ current_trick.leader = winner(done)
         /\ winner(done) # done.leader
         /\ winner(done) # (done.plays[4][1] + 1) % num_players

\* the point values of a list of cards, added up
PointsIn(cards) == SumSeq([i \in 1..Len(cards) |-> point_value(cards[i])])

\* every card played into a trick
TrickCards(tr) == Concat([i \in 1..Len(tr.plays) |-> tr.plays[i][2]])

\* C17: the play that fills the trick appends the trick to the history and
\* adds the point values of all cards of its four plays to the score of the
\* winner's team; if all hands are then empty that team also gets the point
\* values of the kitty and the phase becomes SCORING; the other team's score
\* does not change, and the phase becomes SCORING in no other step
C17_TrickScored ==
  [][/\ (phase = PLAYING /\ ret'.op = "play_cards"
            /\ Len(current_trick.plays) = 3) =>
          LET done  == tricks'[Len(tricks')]
              team  == winner(done) % 2
              empty == \A q \in Players : hands'[q] = <<>>
          IN  /\ tricks' = Append(tricks, done)
              /\ Len(done.plays) = 4
              /\ SubSeq(done.plays, 1, 3) = current_trick.plays
              /\ scores'[team] = scores[team] + PointsIn(TrickCards(done))
                                   + (IF empty THEN PointsIn(kitty) ELSE 0)
              /\ scores'[1 - team] = scores[1 - team]
              /\ phase' = IF empty THEN SCORING ELSE PLAYING
     /\ (phase # SCORING /\ phase' = SCORING) =>
          /\ phase = PLAYING
          /\ ret'.op = "play_cards"
          /\ Len(current_trick.plays) = 3
          /\ \A q \in Players : hands'[q] = <<>>]_vars

\* the round ended with points in the kitty and in the last trick, and both
\* teams scored
C17_Witness ==
  /\ phase = SCORING
  /\ Len(tricks) = 25
  /\ PointsIn(kitty) > 0
  /\ PointsIn(TrickCards(tricks[25])) > 0
  /\ scores[0] > 0
  /\ scores[1] > 0

(***************************************************************************)
(* The end of the round                                                    *)
(***************************************************************************)
\* the outcome the thresholds give for p attacker points when team d declared
StatedOutcome(p, d) ==
  IF p < 40 THEN <<"defenders", 2, d>>
  ELSE IF p <= 79 THEN <<"defenders", 1, d>>
  ELSE IF p <= 119 THEN <<"attackers", 0, 1 - d>>
  ELSE IF p <= 159 THEN <<"attackers", 1, 1 - d>>
  ELSE IF p <= 199 THEN <<"attackers", 2, 1 - d>>
  ELSE <<"attackers", 3, 1 - d>>

\* C18: for the attacker points p, the score of the team that did not
\* declare, compute_round_outcome gives: p < 40 defenders win, delta 2;
\* 40..79 defenders, 1; 80..119 attackers, 0; 120..159 attackers, 1;
\* 160..199 attackers, 2; 200 and more attackers, 3; the winner team and the
\* leveling team are the declaring team when the defenders win, the other
\* team when the attackers win; and the call changes nothing of the round
C18_OutcomeByThreshold ==
  [][ret'.op = "_show_result" =>
       LET o == ret'.value
           p == scores[1 - declaring_team]
       IN  /\ o.attacker_pts = p
           /\ <<IF o.attackers_win THEN "attackers" ELSE "defenders",
                o.level_delta, o.winner_team>> = StatedOutcome(p, declaring_team)
           /\ o.leveling_team = o.winner_team
           /\ o.def_team = declaring_team
           /\ o.atk_team = 1 - declaring_team
           /\ UNCHANGED <<trump_rank, declaration, declaration_strength,
                          declaring_player, declaring_team, trump_suit, trump,
                          hands, kitty, phase, current_player, tricks,
                          current_trick, scores, deck, deal_idx>>]_vars

\* the attackers took exactly 120 points against declaring team 1
C18_Witness ==
  /\ ret.op = "_show_result"
  /\ declaring_team = 1
  /\ scores[0] = 120
  /\ ret.value.attackers_win
  /\ ret.value.level_delta = 1
  /\ ret.value.winner_team = 0

\* C19: after a round the defenders held, the team that defended keeps the
\* role and the kitty goes to the partner of the player who buried it; after
\* a round the attackers won, they defend next and the kitty goes to the
\* seat after the player who buried it; either way the next kitty player is
\* on the next defending team, whoever won the declaration
C19_RolesFollowOutcome ==
  [][ret'.op = "_show_result" =>
       /\ IF ret'.value.attackers_win
          THEN /\ app'.defending_team = 1 - declaring_team
               /\ app'.kitty_player = (declaring_player + 1) % 4
          ELSE /\ app'.defending_team = declaring_team
               /\ app'.kitty_player = (declaring_player + 2) % 4
       /\ app'.kitty_player % 2 = app'.defending_team]_vars

(***************************************************************************)
(* CardCombo on its own: a combo is built from every list of up to         *)
(* MaxCombo distinct cards of a small universe, under every trump of       *)
(* ComboTrumps, the list taken in deck order and in a shuffled order.      *)
(***************************************************************************)
NumComboRanks == 3

MaxCombo == 5

\* the game untouched: the functions under study read none of its fields
Idle == GameInit("2", 0, Shuffle(1)) /\ misuses = 0 /\ app = AppInit

IdleStep ==
  UNCHANGED <<trump_rank, declaration, declaration_strength, declaring_player,
              declaring_team, trump_suit, trump, hands, kitty, phase,
              current_player, tricks, current_trick, scores, deck, deal_idx,
              misuses, app>>

ComboUniverse ==
  {c \in Range(UnshuffledDeck) :
     is_joker(c) \/ (c.suit \in {"H", "S"} /\ RANK_VAL[c.rank] < NumComboRanks)}

ComboTrumps ==
  {TrumpSystem(s, RANKS[r]) : s \in {"C", "H", "S"}, r \in 1..(NumComboRanks + 1)}

\* the cards of S in the order they have in the list `order`
AsList(S, order) == SelectSeq(order, LAMBDA c : c \in S)

ComboLists ==
  {AsList(S, order) :
     S \in {T \in SUBSET ComboUniverse : Cardinality(T) \in 1..MaxCombo},
     order \in {UnshuffledDeck, Shuffle(1)}}

InitCombo ==
  /\ Idle
  /\ \E cards \in ComboLists : \E t \in ComboTrumps :
       ret = [op |-> "args", cards |-> cards, trump |-> t]

NewCombo ==
  /\ ret.op = "args"
  /\ ret' = [op |-> "CardCombo", cards |-> ret.cards, trump |-> ret.trump,
             value |-> CardCombo(ret.cards, ret.trump)]
  /\ IdleStep

NextCombo == NewCombo

SpecCombo == InitCombo /\ [][NextCombo]_vars

\* C3: the components of a CardCombo built from distinct cards partition its
\* cards: their sizes sum to the number of cards and every card is in
\* exactly one component, once
C3_ComponentsPartition ==
  ret.op = "CardCombo"
    => LET comps == ret.value.components
       IN  /\ SumSeq([i \in 1..Len(comps) |-> Len(comps[i])]) = Len(ret.cards)
           /\ \A c \in Range(ret.cards) :
                Cardinality({i \in 1..Len(comps) : c \in Range(comps[i])}) = 1
           /\ \A i \in 1..Len(comps) : Cardinality(Range(comps[i])) = Len(comps[i])
           /\ \A i \in 1..Len(comps) : Range(comps[i]) \subseteq Range(ret.cards)

C3_Witness ==
  /\ ret.op = "CardCombo"
  /\ ret.value.type = MULTI
  /\ Len(ret.value.components) = 2
  /\ \E i \in 1..2 : Len(ret.value.components[i]) = 4
  /\ Len(ret.cards) = 5

\* the order values of the cards, and the cards of one order value
OrdersOf(t, cards) == {order_of(t, cards[i]) : i \in 1..Len(cards)}

WithOrder(t, cards, o) == {c \in Range(cards) : order_of(t, c) = o}

\* every order value occurs exactly twice
AllPaired(t, cards) ==
  \A o \in OrdersOf(t, cards) : Cardinality(WithOrder(t, cards, o)) = 2

\* the sorted distinct order values are each exactly 1 apart
Consecutive(t, cards) ==
  \A o \in OrdersOf(t, cards) :
    (o - 1) \in OrdersOf(t, cards) \/ \A q \in OrdersOf(t, cards) : o <= q

NumTrickTrumps == 2

TrickUniverse ==
  {Card("H", "3", 0), Card("H", "3", 1), Card("H", "K", 0),
   Card("S", "3", 0), Card("S", "3", 1), Card("S", "A", 0),
   Card("C", "3", 0), Card("C", "A", 0), Card("D", "4", 0),
   Card(BIG_JOKER, BIG_JOKER, 0)}

TrumpChoices ==
  <<TrumpSystem("S", "2"), TrumpSystem("D", "3"), TrumpSystem("H", "4"),
    TrumpSystem("C", "5"), TrumpSystem("S", "5"), TrumpSystem("H", "2")>>

TrickTrumps == {TrumpChoices[i] : i \in 1..NumTrickTrumps}

Singles ==
  {cs \in [1..num_players -> TrickUniverse] :
     \A i, j \in 1..num_players : i # j => cs[i] # cs[j]}

InitTrick ==
  /\ Idle
  /\ \E cs \in Singles : \E t \in TrickTrumps : \E leader \in Players :
       ret = [op |-> "args", trick |-> Trick(t, leader), cards |-> cs]

\* the trick after the first n cards of cs are played in seat order
RECURSIVE PlayedInTurn(_, _, _)
PlayedInTurn(trick, cs, n) ==
  IF n = 0 THEN trick
  ELSE TrickPlay(PlayedInTurn(trick, cs, n - 1),
                 (trick.leader + n - 1) % num_players, <<cs[n]>>)

TrickWinner ==
  /\ ret.op = "args"
  /\ LET full == PlayedInTurn(ret.trick, ret.cards, num_players)
     IN  ret' = [op |-> "winner", trick |-> full, cards |-> ret.cards,
                 value |-> winner(full)]
  /\ IdleStep

NextTrick == TrickWinner

SpecTrick == InitTrick /\ [][NextTrick]_vars

\* the play that wins by the stated rule: among the trumps if any was played,
\* else among the led-suit cards, the strongest, the earliest of equals
StatedWinner(trick) ==
  LET t        == trick.trump
      card(i)  == trick.plays[i][2][1]
      led      == effective_suit(t, card(1))
      trumps   == {i \in 1..num_players : is_trump(t, card(i))}
      cands    == IF trumps # {} THEN trumps
                  ELSE {i \in 1..num_players : effective_suit(t, card(i)) = led}
      force(i) == IF trumps # {} THEN trump_order(t, card(i))
                  ELSE RANK_VAL[card(i).rank]
      best     == CHOOSE i \in cands :
                    \A j \in cands : force(i) > force(j)
                                     \/ (force(i) = force(j) /\ i <= j)
  IN  trick.plays[best][1]

\* C7: in a trick of four single cards the winner is the player of the
\* highest trump if a trump was played, else of the highest led-suit card,
\* the earlier play winning between equals; an off-suit non-trump never wins
C7_SinglesWinner ==
  ret.op = "winner" => ret.value = StatedWinner(ret.trick)

\* the lead wins over its later copy although a higher off-suit card and no
\* trump were played
C7_Witness ==
  /\ ret.op = "winner"
  /\ ret.value = ret.trick.leader
  /\ \A i \in 1..num_players : ~is_trump(ret.trick.trump, ret.cards[i])
  /\ \E i \in 2..num_players :
       /\ ret.cards[i].suit = ret.cards[1].suit
       /\ ret.cards[i].rank = ret.cards[1].rank
  /\ \E i \in 2..num_players :
       /\ ret.cards[i].suit # ret.cards[1].suit
       /\ RANK_VAL[ret.cards[i].rank] > RANK_VAL[ret.cards[1].rank]

(***************************************************************************)
(* Following on its own.  A case gives every heart rank from 3 upward one  *)
(* of six holdings (nobody holds it; the follower holds one copy or both;  *)
(* the leader leads one copy or both; the leader leads one copy and the    *)
(* follower holds the other), and the follower up to MaxExtras clubs.      *)
(***************************************************************************)
NumFollowRanks == 5

MaxFollowLead == 2

MaxExtras == 2

NumFollowTrumps == 2

FollowTrumps == {TrumpChoices[2 * i - 1] : i \in 1..NumFollowTrumps}

Holdings(n) == [1..n -> 0..5]

HeldBy(m) ==
  {Card("H", RANKS[i + 1], 0) : i \in {k \in DOMAIN m : m[k] \in {1, 2}}}
    \cup {Card("H", RANKS[i + 1], 1) : i \in {k \in DOMAIN m : m[k] \in {2, 5}}}

LedBy(m) ==
  {Card("H", RANKS[i + 1], 0) : i \in {k \in DOMAIN m : m[k] \in {3, 4, 5}}}
    \cup {Card("H", RANKS[i + 1], 1) : i \in {k \in DOMAIN m : m[k] = 4}}

Extras(e) == {Card("C", "3", d) : d \in 0..(e - 1)}

\* the (lead, hand) lists of the cases: a lead of 1..maxLead cards of one
\* effective suit and a sorted hand of at least as many cards
FollowCases(n, maxLead, maxExtra, t) ==
  UNION {{<<AsList(LedBy(m), UnshuffledDeck),
            sort_hand(t, AsList(HeldBy(m) \cup Extras(e), UnshuffledDeck))>> :
            e \in {x \in 0..maxExtra :
                     Cardinality(HeldBy(m)) + x >= Cardinality(LedBy(m))}} :
          m \in {h \in Holdings(n) : Cardinality(LedBy(h)) \in 1..maxLead}}

InitFollow ==
  /\ Idle
  /\ \E t \in FollowTrumps :
       \E lh \in FollowCases(NumFollowRanks, MaxFollowLead, MaxExtras, t) :
         \E F \in {G \in SUBSET Range(lh[2]) : Cardinality(G) = Len(lh[1])} :
           /\ is_valid_lead(lh[1], t)
           /\ ret = [op |-> "args", lead |-> lh[1], hand |-> lh[2],
                     cards |-> AsList(F, lh[2]), trump |-> t]

CheckFollow ==
  /\ ret.op = "args"
  /\ ret' = [op |-> "is_valid_follow", lead |-> ret.lead, hand |-> ret.hand,
             cards |-> ret.cards, trump |-> ret.trump,
             value |-> is_valid_follow(ret.cards, CardCombo(ret.lead, ret.trump),
                                       ret.hand, ret.trump)]
  /\ IdleStep

NextFollow == CheckFollow

SpecFollow == InitFollow /\ [][NextFollow]_vars

InLedSuit(cards) ==
  SelectSeq(cards, LAMBDA c : effective_suit(ret.trump, c)
                                = effective_suit(ret.trump, ret.lead[1]))

SameCard(a, b) == a.suit = b.suit /\ a.rank = b.rank

\* the pairs of the led suit in the follower's hand
HeldPairs ==
  {P \in SUBSET Range(InLedSuit(ret.hand)) :
     Cardinality(P) = 2 /\ \A a, b \in P : SameCard(a, b)}

\* C4: against a led pair, a hand holding a pair of the led suit may not
\* follow with two unpaired led-suit cards while a held pair stays in the
\* hand, and may follow with a held pair
C4_HeldPairMustBePlayed ==
  (/\ ret.op = "is_valid_follow"
   /\ Len(ret.lead) = 2
   /\ SameCard(ret.lead[1], ret.lead[2])
   /\ HeldPairs # {})
    => /\ (/\ Len(InLedSuit(ret.cards)) = 2
           /\ ~SameCard(ret.cards[1], ret.cards[2])
           /\ \E P \in HeldPairs : P \cap Range(ret.cards) = {})
            => ~ret.value
       /\ Range(ret.cards) \in HeldPairs => ret.value

NumBuildRanks == 6

MaxBuildLead == 4

InitBuild ==
  /\ Idle
  /\ \E t \in FollowTrumps :
       \E lh \in FollowCases(NumBuildRanks, MaxBuildLead, 0, t) :
         /\ is_valid_lead(lh[1], t)
         /\ ret = [op |-> "args", lead |-> lh[1], hand |-> lh[2], trump |-> t]

BuildFollow ==
  /\ ret.op = "args"
  /\ ret' = [op |-> "build_valid_follow", lead |-> ret.lead, hand |-> ret.hand,
             trump |-> ret.trump,
             value |-> build_valid_follow(CardCombo(ret.lead, ret.trump),
                                          ret.hand, ret.trump)]
  /\ IdleStep

NextBuild == BuildFollow

SpecBuild == InitBuild /\ [][NextBuild]_vars

\* C6: for a legal lead and a hand of at least as many cards,
\* build_valid_follow returns distinct cards of the hand that is_valid_follow
\* accepts for that lead and hand
C6_BuiltFollowIsLegal ==
  ret.op = "build_valid_follow"
    => /\ Range(ret.value) \subseteq Range(ret.hand)
       /\ Cardinality(Range(ret.value)) = Len(ret.value)
       /\ is_valid_follow(ret.value, CardCombo(ret.lead, ret.trump),
                          ret.hand, ret.trump)

(***************************************************************************)
(* TrumpSystem on its own: trump_order and beats are applied to every     *)
(* pair of cards of a small universe (both copies of the NumOrderRanks     *)
(* lowest ranks of every suit and the four jokers), under every trump suit *)
(* and the NumOrderRanks + 1 lowest trump ranks, for every led suit.       *)
(***************************************************************************)
NumOrderRanks == 3

OrderUniverse ==
  {c \in Range(UnshuffledDeck) : is_joker(c) \/ RANK_VAL[c.rank] < NumOrderRanks}

OrderTrumps ==
  {TrumpSystem(s, RANKS[r]) : s \in Range(SUITS), r \in 1..(NumOrderRanks + 1)}

LedSuits == Range(SUITS) \cup {"TRUMP"}

InitOrder ==
  /\ Idle
  /\ \E t \in OrderTrumps : \E c, i \in OrderUniverse : \E led \in LedSuits :
       ret = [op |-> "args", trump |-> t, challenger |-> c, incumbent |-> i,
              led_suit |-> led]

\* trump_order of both cards (only called for trump cards)
TrumpOrderOf ==
  /\ ret.op = "args"
  /\ is_trump(ret.trump, ret.challenger)
  /\ is_trump(ret.trump, ret.incumbent)
  /\ ret' = [op |-> "trump_order", trump |-> ret.trump,
             challenger |-> ret.challenger, incumbent |-> ret.incumbent,
             led_suit |-> ret.led_suit,
             value |-> <<trump_order(ret.trump, ret.challenger),
                         trump_order(ret.trump, ret.incumbent)>>]
  /\ IdleStep

\* beats in both directions
BeatsOf ==
  /\ ret.op = "args"
  /\ ret' = [op |-> "beats", trump |-> ret.trump,
             challenger |-> ret.challenger, incumbent |-> ret.incumbent,
             led_suit |-> ret.led_suit,
             value |-> <<beats(ret.trump, ret.challenger, ret.incumbent,
                               ret.led_suit),
                         beats(ret.trump, ret.incumbent, ret.challenger,
                               ret.led_suit)>>]
  /\ IdleStep

NextOrder == TrumpOrderOf \/ BeatsOf

SpecOrder == InitOrder /\ [][NextOrder]_vars

\* the band of a trump card in the stated order: 1 trump suit and not trump
\* rank, 2 trump suit and trump rank, 3 trump rank of another suit, 4 small
\* joker, 5 big joker
Band(t, c) ==
  IF is_big_joker(c) THEN 5
  ELSE IF is_small_joker(c) THEN 4
  ELSE IF c.rank = t.trump_rank THEN (IF c.suit = t.trump_suit THEN 2 ELSE 3)
  ELSE 1

\* rank within a band: the rank in band 1, the place in the suit sequence in
\* band 3
WithinBand(t, c) ==
  IF Band(t, c) = 1 THEN RANK_VAL[c.rank]
  ELSE IF Band(t, c) = 3 THEN SUIT_IDX[c.suit]
  ELSE 0

\* C21: trump_order ranks trump cards low to high by band (trump-suit cards of
\* non-trump rank by rank, the trump-suit card of trump rank, the trump-rank
\* cards of the other suits in suit sequence, small joker, big joker): a card
\* of a lower band, or lower within the same band, has the lower trump_order
C21_BandOrder ==
  ret.op = "trump_order"
    => LET t == ret.trump
           c == ret.challenger
           i == ret.incumbent
       IN  (\/ Band(t, c) < Band(t, i)
            \/ /\ Band(t, c) = Band(t, i)
               /\ WithinBand(t, c) < WithinBand(t, i))
             => ret.value[1] < ret.value[2]

\* the bands of the trump cards of a list
BandsOf(t, cards) == {Band(t, cards[i]) : i \in 1..Len(cards)}

\* C22: two trump pairs form a TRACTOR only within the stated bands: two
\* trump-suit pairs of non-trump rank, the trump-suit trump-rank pair with a
\* trump-suit pair of lower rank, two trump-rank pairs of other suits, or the
\* two joker pairs; never the small jokers with the trump-suit trump-rank pair
C22_TractorWithinBands ==
  (/\ ret.op = "CardCombo"
   /\ Len(ret.cards) = 4
   /\ \A c \in Range(ret.cards) : is_trump(ret.trump, c)
   /\ ret.value.type = TRACTOR)
    => BandsOf(ret.trump, ret.cards) \in {{1}, {1, 2}, {3}, {4, 5}}

\* beats as stated: same effective suit and strictly higher trump_order (both
\* trump) or rank (same plain suit); or trump against a plain card; or a
\* led-suit card against a card that is neither led-suit nor trump
StatedBeats(t, c, i, led) ==
  \/ /\ is_trump(t, c)
     /\ is_trump(t, i)
     /\ trump_order(t, c) > trump_order(t, i)
  \/ /\ ~is_trump(t, c)
     /\ ~is_trump(t, i)
     /\ c.suit = i.suit
     /\ RANK_VAL[c.rank] > RANK_VAL[i.rank]
  \/ is_trump(t, c) /\ ~is_trump(t, i)
  \/ /\ effective_suit(t, c) = led
     /\ effective_suit(t, i) # led
     /\ ~is_trump(t, i)

\* C23: beats(c, i, led) is true exactly in the stated cases; beats(a, b, led)
\* and beats(b, a, led) are never both true, and a card beats neither itself
\* nor its other physical copy
C23_BeatsAsStated ==
  ret.op = "beats"
    => LET t == ret.trump
           c == ret.challenger
           i == ret.incumbent
       IN  /\ ret.value[1] <=> StatedBeats(t, c, i, ret.led_suit)
           /\ ret.value[2] <=> StatedBeats(t, i, c, ret.led_suit)
           /\ ~(ret.value[1] /\ ret.value[2])
           /\ (c.suit = i.suit /\ c.rank = i.rank) => ~ret.value[1]

\* a plain led-suit card beats a plain card of another suit, which does not
\* beat it back
C23_Witness ==
  /\ ret.op = "beats"
  /\ ~is_trump(ret.trump, ret.challenger)
  /\ ~is_trump(ret.trump, ret.incumbent)
  /\ ret.challenger.suit = ret.led_suit
  /\ ret.incumbent.suit # ret.led_suit
  /\ ret.value = <<TRUE, FALSE>>

(***************************************************************************)
(* The lead of a trick on its own: a trick is opened and led with every    *)
(* legal lead made of hearts of the NumTemplateRanks lowest ranks, each    *)
(* rank held not at all, once or twice.                                    *)
(***************************************************************************)
NumTemplateRanks == 6

NumTemplateTrumps == 3

TemplateTrumps == {TrumpChoices[i] : i \in 1..NumTemplateTrumps}

\* the hearts of the lead: m[k] copies of the k-th rank
TemplateLead(m) ==
  Concat([k \in DOMAIN m |->
            IF m[k] = 0 THEN <<>>
            ELSE IF m[k] = 1 THEN <<Card("H", RANKS[k], 0)>>
            ELSE <<Card("H", RANKS[k], 0), Card("H", RANKS[k], 1)>>])

InitTemplate ==
  /\ Idle
  /\ \E t \in TemplateTrumps : \E leader \in Players :
       \E m \in [1..NumTemplateRanks -> 0..2] :
         /\ is_valid_lead(TemplateLead(m), t)
         /\ ret = [op |-> "args", trick |-> Trick(t, leader),
                   cards |-> TemplateLead(m)]

\* Trick.play of the lead
LeadPlay ==
  /\ ret.op = "args"
  /\ ret' = [op |-> "play", cards |-> ret.cards,
             trick |-> TrickPlay(ret.trick, ret.trick.leader, ret.cards)]
  /\ IdleStep

NextTemplate == LeadPlay

SpecTemplate == InitTemplate /\ [][NextTemplate]_vars

\* C24: the template that winner resolution takes from the lead, the sizes of
\* led_combo.components in their stored order, is in largest-first order: it
\* is the list of sizes that required_follow_structure walks for the same lead
C24_TemplateLargestFirst ==
  ret.op = "play"
    => SizesOf(ret.trick.led_combo.components)
         = SizesOf(LargestFirst(ret.trick.led_combo.components))

\* C25: two cards are classified PAIR exactly when they have the same
\* effective suit and the same order value, the grouping key of _decompose
\* and of follow validation
C25_PairIffSameKey ==
  (ret.op = "CardCombo" /\ Len(ret.cards) = 2)
    => ((ret.value.type = PAIR)
          <=> SuitOrderKey(ret.trump, ret.cards[1])
                = SuitOrderKey(ret.trump, ret.cards[2]))

(***************************************************************************)
(* The human player following (_human_play): the lead is the pair or the   *)
(* tractor of the 1..MaxChoicePairs lowest hearts from 3 upward, the hand   *)
(* holds no, one or both copies of each of NumChoiceRanks hearts from 7     *)
(* upward, and the player selects as many cards of the hand as were led.    *)
(***************************************************************************)
MaxChoicePairs == 3

NumChoiceRanks == 5

\* both copies of the k lowest hearts from 3 upward
ChoiceLead(k) == TemplateLead([r \in 1..(k + 1) |-> IF r = 1 THEN 0 ELSE 2])

\* m[r] copies of the r-th heart from 7 upward
ChoiceHand(m) ==
  TemplateLead([r \in 1..(NumChoiceRanks + 5) |-> IF r <= 5 THEN 0 ELSE m[r - 5]])

\* the selections of n cards of the hand, in hand order
Selections(hand, n) ==
  {AsList(S, hand) : S \in {T \in SUBSET Range(hand) : Cardinality(T) = n}}

InitHuman ==
  /\ Idle
  /\ \E t \in FollowTrumps : \E k \in 1..MaxChoicePairs :
       \E m \in [1..NumChoiceRanks -> 0..2] :
         /\ is_valid_lead(ChoiceLead(k), t)
         /\ Len(ChoiceHand(m)) >= Len(ChoiceLead(k))
         /\ ret = [op |-> "args", lead |-> ChoiceLead(k), hand |-> ChoiceHand(m),
                   trump |-> t]

\* _human_play, following: the selection is validated before it is played
HumanFollow ==
  /\ ret.op = "args"
  /\ \E sel \in Selections(ret.hand, Len(ret.lead)) :
       ret' = [op |-> "is_valid_follow", lead |-> ret.lead, hand |-> ret.hand,
               trump |-> ret.trump, cards |-> sel,
               value |-> is_valid_follow(sel, CardCombo(ret.lead, ret.trump),
                                         ret.hand, ret.trump)]
  /\ IdleStep

NextHuman == HumanFollow

SpecHuman == InitHuman /\ [][NextHuman]_vars

\* C26: for every legal lead and every hand of at least as many cards, some
\* selection of cards of the hand is accepted by is_valid_follow
C26_SomeFollowAccepted ==
  ret.op = "args"
    => \E sel \in Selections(ret.hand, Len(ret.lead)) :
         is_valid_follow(sel, CardCombo(ret.lead, ret.trump), ret.hand, ret.trump)

(***************************************************************************)
(* The automated player's view of an unfinished trick: up to three single   *)
(* cards of TrickUniverse are played in seat order and the provisional      *)
(* winner is computed.                                                      *)
(***************************************************************************)
MaxPartialPlays == 3

\* the loop of _provisional_winner over plays[1:]: best_p after the last play
RECURSIVE ProvisionalBest(_, _, _, _)
ProvisionalBest(t, plays, best_c, led_suit) ==
  IF Len(plays) = 1 THEN plays[1][1]
  ELSE LET last == plays[Len(plays)]
       IN  IF _component_beats(t, last[2], best_c, best_c, led_suit)
           THEN last[1]
           ELSE ProvisionalBest(t, SubSeq(plays, 1, Len(plays) - 1), best_c,
                                led_suit)

_provisional_winner(trick, t) ==
  IF trick.plays = <<>> THEN -1
  ELSE ProvisionalBest(t, trick.plays, trick.plays[1][2],
                       combo_suit(t, trick.led_combo))

InitPartial ==
  /\ Idle
  /\ \E t \in TrickTrumps : \E leader \in Players :
       ret = [op |-> "Trick", trick |-> Trick(t, leader)]

\* Trick.play by the next seat, of one card not played yet
PartialPlay ==
  /\ ret.op \in {"Trick", "play"}
  /\ Len(ret.trick.plays) < MaxPartialPlays
  /\ \E c \in TrickUniverse :
       /\ \A k \in 1..Len(ret.trick.plays) : ret.trick.plays[k][2] # <<c>>
       /\ ret' = [op |-> "play",
                  trick |-> TrickPlay(ret.trick,
                                      (ret.trick.leader + Len(ret.trick.plays))
                                        % num_players,
                                      <<c>>)]
  /\ IdleStep

ProvisionalWinner ==
  /\ ret.op = "play"
  /\ ret' = [op |-> "_provisional_winner", trick |-> ret.trick,
             value |-> _provisional_winner(ret.trick, ret.trick.trump)]
  /\ IdleStep

NextPartial == PartialPlay \/ ProvisionalWinner

SpecPartial == InitPartial /\ [][NextPartial]_vars

\* C27: the provisional winner of a trick of 1 to 3 plays is the running best
\* of winner resolution on the same plays in the same order, each later play
\* compared with the current best
C27_ProvisionalIsRunningBest ==
  ret.op = "_provisional_winner"
    => ret.value = BestPlay(ret.trick.trump, ret.trick.plays,
                            ret.trick.led_combo.components,
                            combo_suit(ret.trick.trump, ret.trick.led_combo))[1]

\* C28: a play_cards or bury_kitty call made out of turn, in the wrong phase,
\* with a burial of other than 8 cards or with a card the player does not
\* hold leaves hands, kitty, current trick, scores, current player and phase
\* as they were
C28_FailedCallChangesNothing ==
  [][(misuses' # misuses /\ ret'.op \in {"play_cards", "bury_kitty"})
       => UNCHANGED <<hands, kitty, current_trick, scores, current_player,
                      phase>>]_vars

\* the point values of the cards held by the four players
PointsInHands == SumSeq([i \in 1..num_players |-> PointsIn(hands[i - 1])])

\* C29: in PLAYING the two scores plus the point values of the cards in the
\* hands, in the current trick and in the kitty total 200; in SCORING the two
\* scores total 200
C29_PointsConserved ==
  /\ phase = PLAYING
       => scores[0] + scores[1] + PointsInHands
            + PointsIn(TrickCards(current_trick)) + PointsIn(kitty) = 200
  /\ phase = SCORING => scores[0] + scores[1] = 200

\* the round is over, both teams scored and the kitty held points
C29_Witness ==
  /\ phase = SCORING
  /\ scores[0] > 0
  /\ scores[1] > 0
  /\ PointsIn(kitty) > 0
  /\ scores[0] + scores[1] = 200

(***************************************************************************)
(* The round with pre-validated plays (_human_play) and a driver that      *)
(* keeps going: every lead is non-empty and accepted by is_valid_lead,     *)
(* every follow is accepted by is_valid_follow, and dealing, burial and    *)
(* the current player's play are each taken when they stay possible.       *)
(***************************************************************************)
\* the follows among the driver's candidates that is_valid_follow accepts
LegalFollows(h) ==
  {cs \in FollowInputs(h) :
     is_valid_follow(cs, current_trick.led_combo, h, trump)}

LegalInputs ==
  LET h == hands[current_player]
  IN  IF current_trick.plays = <<>>
      THEN {cs \in LeadInputs(h) : cs # <<>> /\ is_valid_lead(cs, trump)}
      ELSE LegalFollows(h)

PlayLegal ==
  /\ phase = PLAYING
  /\ \E cards \in LegalInputs : play_cards(current_player, cards)
  /\ UNCHANGED <<misuses, app>>

NextFair == Deal \/ Bury \/ PlayLegal

\* the states in which the driver deals, buries, and waits for a play
DealTurn == phase \in {DEALING, KITTY} /\ ret # DealtNone

BuryTurn == phase = KITTY /\ ret = DealtNone

PlayTurn == phase = PLAYING

\* what every deal, burial and play changes
cards_and_phase == <<hands, phase>>

\* weak fairness of Deal, of Bury and of the current player's play, written
\* out as []<>(not enabled) \/ []<>(step taken) with the action's guard
\* standing for its enabling condition: the driver reschedules itself after
\* every deal and burial (after()), and the current player always eventually
\* plays, a play being the step that takes cards from a hand during PLAYING
SpecFair ==
  /\ Init
  /\ [][NextFair]_vars
  /\ ([]<>(~DealTurn) \/ []<><<Deal>>_cards_and_phase)
  /\ ([]<>(~BuryTurn) \/ []<><<Bury>>_cards_and_phase)
  /\ ([]<>(~PlayTurn) \/ []<><<PlayTurn>>_hands)

\* the four hands have the same number of cards
HandsEqual == \A p, q \in Players : Len(hands[p]) = Len(hands[q])

\* C30: when leads and follows are accepted plays and the current player
\* always eventually plays, the hands are of equal size at the start of every
\* trick, every trick is archived with exactly four plays, there are at most
\* 25 tricks, the phase is SCORING exactly when the hands have become empty,
\* and SCORING is eventually reached
C30_RoundTerminates ==
  /\ []((phase = PLAYING /\ current_trick.plays = <<>>) => HandsEqual)
  /\ [](/\ \A k \in 1..Len(tricks) : Len(tricks[k].plays) = 4
        /\ phase = PLAYING => Len(current_trick.plays) < 4
        /\ Len(tricks) <= 25)
  /\ [](phase \in {PLAYING, SCORING}
          => (phase = SCORING <=> \A p \in Players : hands[p] = <<>>))
  /\ <>(phase = SCORING)

\* the round ended after 24 tricks, the first of them led with two cards
C30_Witness ==
  /\ phase = SCORING
  /\ Len(tricks) = 24
  /\ Len(tricks[1].plays[1][2]) = 2
  /\ _all_cards_played(hands)

=============================================================================
